---- MODULE Spec2Model ----
(***************************************************************************)
(* c3-node-proxy: the per-tenant workload cache with its background        *)
(* refresh task, the least-busy node selection and the in-flight request   *)
(* counters, as a state machine.  One action is one critical section or    *)
(* one blocking I/O call of the Go code; goroutines interleave between     *)
(* them.                                                                   *)
(***************************************************************************)
EXTENDS Integers, Sequences, FiniteSets, TLC

(* ------------------------------ bounds -------------------------------- *)
\* concurrent inbound requests (goroutines running ProxyHandler)
NumHandlers == 2
\* the clock stops here
MaxTime == 240
\* the clock advances in steps of this many seconds
TimeStep == 60
\* registry objects (*WorkloadCache) ever allocated
MaxObjs == 2
\* background goroutines alive or finished at one time
MaxTasks == 2
\* cap of a counter in the specification of arbitrary TrackRequest calls
MaxCount == 3
\* longest upstream listing and longest tag list of one workload
MaxWorkloads == 2
MaxTags == 2
\* bits of the int that strconv.Atoi returns (64 in the build)
IntBits == 4

(* ------------------------- program constants -------------------------- *)
\* staleCache: time.Since(cache.LastFetch) > 60*time.Second
FreshSeconds == 60
\* inactivityDuration > 180*time.Second
IdleSeconds == 180
\* time.NewTicker(60 * time.Second)
TickSeconds == 60
\* the zero time.Time of a registry that was never fetched
ZeroTime == -1000

Tenants == {"k1"}
Nodes == {"A", "B"}
TagNames == {"t", "u"}
Statuses == {"running", "stopped"}
Handlers == 1..NumHandlers
TaskIds == 1..MaxTasks
Times == {i * TimeStep : i \in 0..(MaxTime \div TimeStep)}

VARIABLES
  now,               \* wall clock, seconds
  workloadCache,     \* p.workloadCache: apiKey -> registry object id (absent: no entry)
  heap,              \* the *WorkloadCache objects, by id
  tagMappings,       \* p.tagMappings: apiKey -> (tag -> list of nodes)
  inFlightRequests,  \* p.inFlightRequests: apiKey -> (node -> count)
  hs,                \* one record per request goroutine
  tasks,             \* one record per background refresh goroutine
  phase,             \* "running", "cleanup" (Cleanup returned), "exited" (os.Exit)
  lastTrack,         \* the last TrackRequest call of the counter specification
  updInput           \* the argument of updateCache in the update specification

vars == <<now, workloadCache, heap, tagMappings, inFlightRequests, hs, tasks,
          phase, lastTrack, updInput>>

(* ------------------------------ Go maps ------------------------------- *)
EmptyMap == [x \in {} |-> 0]
Put(m, k, v) == [x \in (DOMAIN m) \cup {k} |-> IF x = k THEN v ELSE m[x]]
Delete(m, k) == [x \in (DOMAIN m) \ {k} |-> m[x]]

(* ------------------------------ workloads ----------------------------- *)
Workload(node, running, status, tags) ==
  [Node |-> node, Running |-> running, Status |-> status, Tags |-> tags]

\* w.Running && w.Status == "running"
IsRunning(w) == w.Running /\ w.Status = "running"

SeqsUpTo(S, n) == UNION {[1..i -> S] : i \in 0..n}

AllWorkloads ==
  {Workload(n, r, s, tg) : n \in Nodes, r \in BOOLEAN, s \in Statuses,
                           tg \in SeqsUpTo(TagNames, MaxTags)}
AllWorkloadLists == SeqsUpTo(AllWorkloads, MaxWorkloads)

(* ----------------------- RequestTracker (pure part) ------------------- *)
\* a missing entry reads as 0 (Go's zero value for an absent map key)
Count(m, n) == IF n \in DOMAIN m THEN m[n] ELSE 0

\* the per-tenant counter table; reading an absent tenant gives the nil map
NodeCounts(ifr, k) == IF k \in DOMAIN ifr THEN ifr[k] ELSE EmptyMap

TrackCountNoClamp(currentCount, delta) == currentCount + delta

\* the value TrackRequest stores for a pair whose current count is currentCount
TrackCount(currentCount, delta) ==
  IF delta < 0 /\ currentCount <= 0 THEN 0
  ELSE IF delta < 0 /\ currentCount < -delta THEN 0
  ELSE LET sum == currentCount + delta
       IN  IF sum < 0 THEN 0 ELSE sum

\* p.inFlightRequests after TrackRequest(apiKey, node, delta)
TrackMap(ifr, apiKey, node, delta) ==
  LET m == NodeCounts(ifr, apiKey)
  IN  Put(ifr, apiKey, Put(m, node, TrackCount(Count(m, node), delta)))

(* ---------------------- updateCache (pure part) ----------------------- *)
RECURSIVE AppendTags(_, _, _)
\* for _, tag := range tags { tagMap[tag] = append(tagMap[tag], w.Node) }
AppendTags(tagMap, node, tags) ==
  IF tags = <<>> THEN tagMap
  ELSE LET tag == Head(tags)
           old == IF tag \in DOMAIN tagMap THEN tagMap[tag] ELSE <<>>
       IN  AppendTags(Put(tagMap, tag, Append(old, node)), node, Tail(tags))

RECURSIVE BuildTagMapNoStatus(_, _)
BuildTagMapNoStatus(tagMap, workloads) ==
  IF workloads = <<>> THEN tagMap
  ELSE LET w == Head(workloads)
       IN  BuildTagMapNoStatus(
             IF w.Running THEN AppendTags(tagMap, w.Node, w.Tags) ELSE tagMap,
             Tail(workloads))

RECURSIVE BuildTagMap(_, _)
\* the loop of updateCache over the fetched workloads
BuildTagMap(tagMap, workloads) ==
  IF workloads = <<>> THEN tagMap
  ELSE LET w == Head(workloads)
       IN  BuildTagMap(
             IF IsRunning(w) THEN AppendTags(tagMap, w.Node, w.Tags) ELSE tagMap,
             Tail(workloads))

\* a fresh registry object as startCacheRefresh makes it
NewCache(t) ==
  [Workloads |-> <<>>, LastFetch |-> ZeroTime, LastAccess |-> t, StopRefresh |-> "open"]

\* the effect of updateCache(apiKey, workloads) on (heap, tagMappings);
\* a nil slice and an empty one are both <<>>: the code tells them apart only
\* in log and error texts
UpdateCacheHeap(wc, hp, apiKey, workloads, t) ==
  IF apiKey \notin DOMAIN wc THEN hp
  ELSE [hp EXCEPT ![wc[apiKey]].Workloads = workloads, ![wc[apiKey]].LastFetch = t]

\* an update that stores the list and leaves the tag index as it is
UpdateCacheTagsKept(wc, tm, apiKey, workloads) ==
  IF apiKey \notin DOMAIN wc \/ apiKey \in DOMAIN tm THEN tm
  ELSE Put(tm, apiKey, BuildTagMap(EmptyMap, workloads))

UpdateCacheTags(wc, tm, apiKey, workloads) ==
  IF apiKey \notin DOMAIN wc THEN tm
  ELSE Put(tm, apiKey, BuildTagMap(EmptyMap, workloads))

updateCache(apiKey, workloads) ==
  /\ heap' = UpdateCacheHeap(workloadCache, heap, apiKey, workloads, now)
  /\ tagMappings' = UpdateCacheTags(workloadCache, tagMappings, apiKey, workloads)

(* ------------------- GetLeastBusyNode (pure part) --------------------- *)
RECURSIVE ScanNodesLast(_, _, _, _)
ScanNodesLast(nodes, counts, minRequests, selectedNode) ==
  IF nodes = <<>> THEN selectedNode
  ELSE LET requests == Count(counts, Head(nodes))
       IN  IF minRequests = -1 \/ requests <= minRequests
           THEN ScanNodesLast(Tail(nodes), counts, requests, Head(nodes))
           ELSE ScanNodesLast(Tail(nodes), counts, minRequests, selectedNode)

RECURSIVE ScanNodes(_, _, _, _)
\* the selection loop: minRequests starts at -1, selectedNode at ""
ScanNodes(nodes, counts, minRequests, selectedNode) ==
  IF nodes = <<>> THEN selectedNode
  ELSE LET requests == Count(counts, Head(nodes))
       IN  IF minRequests = -1 \/ requests < minRequests
           THEN ScanNodes(Tail(nodes), counts, requests, Head(nodes))
           ELSE ScanNodes(Tail(nodes), counts, minRequests, selectedNode)

RECURSIVE RunningNodes(_)
\* the nodes of the running workloads, in list order
RunningNodes(workloads) ==
  IF workloads = <<>> THEN <<>>
  ELSE (IF IsRunning(Head(workloads)) THEN <<Head(workloads).Node>> ELSE <<>>)
       \o RunningNodes(Tail(workloads))

HasRunning(workloads) == \E i \in 1..Len(workloads) : IsRunning(workloads[i])

(* --------------------------- upstream listing ------------------------- *)
\* the listings the upstream API answers with in the system specification
ListNone == <<>>
ListTwo == <<Workload("B", TRUE, "running", <<"t">>), Workload("A", TRUE, "running", <<"t">>)>>
\* a stopped workload under the tag and a running one that carries no tag
ListMixed == <<Workload("A", TRUE, "stopped", <<"t">>), Workload("B", TRUE, "running", <<>>)>>
FetchLists == {ListNone, ListTwo, ListMixed}

\* fetchWorkloads: an error (transport failure, non-200, bad JSON) or a listing
FetchOutcomes == {[ok |-> FALSE, list |-> <<>>]} \cup {[ok |-> TRUE, list |-> l] : l \in FetchLists}

(* ------------------------------ request paths ------------------------ *)
Digits == <<"0", "1", "2", "3", "4", "5", "6", "7", "8", "9">>
IsDigit(c) == \E d \in 1..10 : Digits[d] = c
DigitVal(c) == (CHOOSE d \in 1..10 : Digits[d] = c) - 1

\* the largest and the smallest int
MaxInt == 2 ^ (IntBits - 1) - 1
MinInt == 0 - 2 ^ (IntBits - 1)

\* the number that a string of digits reads as, cut off beyond cap
RECURSIVE Magnitude(_, _, _)
Magnitude(ds, acc, cap) ==
  IF ds = <<>> \/ acc > cap THEN acc
  ELSE Magnitude(Tail(ds), acc * 10 + DigitVal(Head(ds)), cap)

\* strconv.Atoi(s): an optional sign and at least one digit, nothing else; a
\* value outside the int range is an error (ErrRange)
Atoi(s) ==
  LET signed == Len(s) > 0 /\ s[1] \in {"+", "-"}
      ds == IF signed THEN Tail(s) ELSE s
      syntax == Len(ds) > 0 /\ \A i \in 1..Len(ds) : IsDigit(ds[i])
      m == Magnitude(ds, 0, MaxInt + 1)
      v == IF signed /\ s[1] = "-" THEN 0 - m ELSE m
  IN  IF syntax /\ v >= MinInt /\ v <= MaxInt THEN [ok |-> TRUE, val |-> v]
      ELSE [ok |-> FALSE, val |-> 0]

\* strings.SplitN(.., "/", 3) on the segments after the first: pathParts[1:],
\* the last part keeping its slashes
SplitRest(rest) ==
  IF Len(rest) <= 1 THEN [i \in 1..Len(rest) |-> <<rest[i]>>]
  ELSE <<<<rest[1]>>, Tail(rest)>>

\* "/" + strings.Join(parts, "/"), as segments
RECURSIVE JoinParts(_)
JoinParts(parts) == IF parts = <<>> THEN <<>> ELSE Head(parts) \o JoinParts(Tail(parts))

(* ------------------------------ goroutines ---------------------------- *)
\* what a goroutine holds of cacheLock (c) and requestLock (r): "" nothing, "R"
\* shared, "W" exclusive, "pend" inside a Lock() call that has not returned; at
\* is the position the locks were taken for
NoLocks == [c |-> "", r |-> "", at |-> ""]

\* one result of resp.Body.Read: a chunk of data ("" for n = 0) and the error
ReadResult(data, err) == [data |-> data, err |-> err]
NoRead == ReadResult("", "nil")

\* the relay of HandleProxyRequest: the status of the node's answer, the
\* requests the client has sent, the status of the response client.Do returned,
\* the results its body gives to Read (src all of them, reads those to come,
\* cur the last one), whether the caller's writer is a Flusher, and what has
\* been written to the caller
NoRelay ==
  [answer |-> 0, sent |-> 0, code |-> 0, src |-> <<>>, reads |-> <<>>, cur |-> NoRead,
   flusher |-> FALSE, out |-> <<>>]

\* the method and the credential headers of a request, the values character by
\* character; Header.Get gives "" for a header that is absent
NoHeaders == [method |-> "", xkey |-> <<>>, auth |-> <<>>]

\* a request goroutine that serves no request
IdleHandler ==
  [pc |-> "idle", apiKey |-> "", kind |-> "", tag |-> "", seg |-> <<>>, rest |-> <<>>,
   idx |-> 0, exists |-> FALSE, cache |-> 0,
   wl |-> <<>>, err |-> FALSE, fetch |-> "none", nodes |-> <<>>, node |-> "", status |-> 0,
   req |-> NoHeaders, relay |-> NoRelay, lk |-> NoLocks]

\* the requests of the system specification: GET /workloads, /tags/{tag}, /{index}
\* seg is the first path segment of an index request, character by character;
\* rest is the segments after it
Requests ==
  {[kind |-> "workloads", tag |-> "", seg |-> <<>>, rest |-> <<>>]}
  \cup {[kind |-> "tag", tag |-> tg, seg |-> <<>>, rest |-> <<>>] : tg \in {"t", "all"}}
  \cup {[kind |-> "index", tag |-> "", seg |-> sg, rest |-> <<>>] : sg \in {<<"0">>, <<"2">>}}

\* a slot that holds no background goroutine; err is the error of the
\* goroutine's last fetch (line 265); stopTicks counts the ticks the goroutine
\* took while its StopRefresh channel was closed
FreeTask ==
  [pc |-> "free", apiKey |-> "", newCache |-> 0, cache |-> 0, lastAccess |-> 0,
   hasActive |-> FALSE, nextTick |-> 0, wl |-> <<>>, err |-> FALSE, stopTicks |-> 0,
   lk |-> NoLocks]

LiveTasks(apiKey) == {t \in TaskIds : tasks[t].pc # "free" /\ tasks[t].apiKey = apiKey}
FreeSlots == {t \in TaskIds : tasks[t].pc = "free"}
MinOf(S) == CHOOSE x \in S : \A y \in S : x <= y

\* cacheLock is held shared across steps only by GetLeastBusyNode, from line 32
\* to its return; every writer of cacheLock waits for it
CacheRHeld == \E h \in Handlers : hs[h].pc \in {"lbMk", "lbScan"}

Alive == phase # "exited"

SetH(h, r) == hs' = [hs EXCEPT ![h] = r]
SetT(t, r) == tasks' = [tasks EXCEPT ![t] = r]

\* no TrackRequest call was made yet
NoTrack == [apiKey |-> "", node |-> "", delta |-> 0, before |-> 0]

Init ==
  /\ now = 0
  /\ workloadCache = EmptyMap
  /\ heap = <<>>
  /\ tagMappings = EmptyMap
  /\ inFlightRequests = EmptyMap
  /\ hs = [h \in Handlers |-> IdleHandler]
  /\ tasks = [t \in TaskIds |-> FreeTask]
  /\ phase = "running"
  /\ lastTrack = NoTrack
  /\ updInput = <<>>

\* time passes
Advance ==
  /\ Alive
  /\ now + TimeStep <= MaxTime
  /\ now' = now + TimeStep
  /\ UNCHANGED <<workloadCache, heap, tagMappings, inFlightRequests, hs, tasks,
                 phase, lastTrack, updInput>>

(* --------------------- registry operations (locked) ------------------- *)
\* heap after updateLastAccess(apiKey)
TouchHeap(apiKey) ==
  IF apiKey \in DOMAIN workloadCache
  THEN [heap EXCEPT ![workloadCache[apiKey]].LastAccess = now]
  ELSE heap

\* the goroutine that startCacheRefresh launches for registry object c
SpawnTask(apiKey, c) ==
  SetT(MinOf(FreeSlots),
       [FreeTask EXCEPT !.pc = "check", !.apiKey = apiKey, !.newCache = c,
                        !.nextTick = now + TickSeconds])

\* startCacheRefresh without the already-running test
startCacheRefreshAlways(apiKey) ==
  /\ FreeSlots # {}
  /\ IF apiKey \in DOMAIN workloadCache
     THEN /\ heap' = [heap EXCEPT ![workloadCache[apiKey]].LastAccess = now]
          /\ UNCHANGED workloadCache
          /\ SpawnTask(apiKey, workloadCache[apiKey])
     ELSE /\ Len(heap) < MaxObjs
          /\ heap' = Append(heap, NewCache(now))
          /\ workloadCache' = Put(workloadCache, apiKey, Len(heap) + 1)
          /\ SpawnTask(apiKey, Len(heap) + 1)

\* startCacheRefresh(apiKey): the check and the creation under cacheLock, then
\* the go statement
startCacheRefresh(apiKey) ==
  IF /\ apiKey \in DOMAIN workloadCache
     /\ heap[workloadCache[apiKey]].StopRefresh # "nil"
  THEN /\ heap' = [heap EXCEPT ![workloadCache[apiKey]].LastAccess = now]
       /\ UNCHANGED <<workloadCache, tasks>>
  ELSE /\ FreeSlots # {}
       /\ IF apiKey \in DOMAIN workloadCache
          THEN /\ heap' = [heap EXCEPT ![workloadCache[apiKey]].LastAccess = now,
                                       ![workloadCache[apiKey]].StopRefresh = "open"]
               /\ UNCHANGED workloadCache
               /\ SpawnTask(apiKey, workloadCache[apiKey])
          ELSE /\ Len(heap) < MaxObjs
               /\ heap' = Append(heap, NewCache(now))
               /\ workloadCache' = Put(workloadCache, apiKey, Len(heap) + 1)
               /\ SpawnTask(apiKey, Len(heap) + 1)

(* ------------------------------ ProxyHandler -------------------------- *)
\* a request with a credential arrives: updateLastAccess (line 122)
Start(h, k, r) ==
  /\ Alive /\ ~CacheRHeld
  /\ hs[h].pc = "idle"
  /\ heap' = TouchHeap(k)
  /\ SetH(h, [IdleHandler EXCEPT !.pc = "gw0", !.apiKey = k, !.kind = r.kind, !.tag = r.tag,
                               !.seg = r.seg, !.rest = r.rest])
  /\ UNCHANGED <<now, workloadCache, tagMappings, inFlightRequests, tasks,
                 phase, lastTrack, updInput>>

\* the characters of a tenant's key, and the tenant of a key
KeyChars(k) == IF k = "k1" THEN <<"k", "1">> ELSE <<>>
ApiKeyOf(cs) == CHOOSE k \in Tenants : KeyChars(k) = cs

Bearer == <<"B", "e", "a", "r", "e", "r", " ">>

\* lines 108-114: X-C3-API-KEY, else the rest of an Authorization value that is
\* longer than 7 characters and starts with "Bearer "
Credential(xkey, auth) ==
  IF xkey # <<>> THEN xkey
  ELSE IF auth # <<>> /\ Len(auth) > 7 /\ SubSeq(auth, 1, 7) = Bearer
       THEN SubSeq(auth, 8, Len(auth)) ELSE <<>>

\* a health check that does not look at the method
IsHealthCheckAnyMethod(method, kind) == kind = "root"

\* line 98: r.URL.Path == "/" && r.Method == "GET"
IsHealthCheck(method, kind) == kind = "root" /\ method = "GET"

\* the header values of the authentication specification
XKeyValues == {<<>>, KeyChars("k1")}
AuthValues ==
  {<<>>, Bearer \o KeyChars("k1"), Bearer, <<"B", "e", "a", "r", "e", "r">>,
   <<"b", "e", "a", "r", "e", "r", " ">> \o KeyChars("k1"),
   <<"B", "a", "s", "i", "c", " ">> \o KeyChars("k1")}
Methods == {"GET", "POST"}
RootRequest == [kind |-> "root", tag |-> "", seg |-> <<>>, rest |-> <<>>]

\* lines 96-122: a request arrives with its method and headers: the health
\* check answers 200, a request without credential is a 401, any other goes on
\* with updateLastAccess
Arrive(h, method, xkey, auth, r) ==
  /\ Alive /\ ~CacheRHeld
  /\ hs[h].pc = "idle"
  /\ LET q == [method |-> method, xkey |-> xkey, auth |-> auth]
         apiKey == Credential(xkey, auth)
     IN  IF IsHealthCheck(method, r.kind)
         THEN /\ SetH(h, [IdleHandler EXCEPT !.pc = "done", !.kind = r.kind, !.status = 200,
                                             !.req = q])
              /\ UNCHANGED heap
         ELSE IF apiKey = <<>>
         THEN /\ SetH(h, [IdleHandler EXCEPT !.pc = "done", !.kind = r.kind, !.status = 401,
                                             !.req = q])
              /\ UNCHANGED heap
         ELSE /\ heap' = TouchHeap(ApiKeyOf(apiKey))
              /\ SetH(h, [IdleHandler EXCEPT !.pc = "gw0", !.apiKey = ApiKeyOf(apiKey),
                                             !.kind = r.kind, !.tag = r.tag, !.seg = r.seg,
                                             !.rest = r.rest, !.req = q])
  /\ UNCHANGED <<now, workloadCache, tagMappings, inFlightRequests, tasks,
                 phase, lastTrack, updInput>>

(* ------------------------------ getWorkloads -------------------------- *)
\* lines 292-294: cache, exists := p.workloadCache[apiKey]
GwLookup(h) ==
  /\ Alive
  /\ hs[h].pc = "gw0"
  /\ SetH(h, [hs[h] EXCEPT !.pc = "gw1",
                           !.exists = (hs[h].apiKey \in DOMAIN workloadCache),
                           !.cache = IF hs[h].apiKey \in DOMAIN workloadCache THEN workloadCache[hs[h].apiKey] ELSE 0])
  /\ UNCHANGED <<now, workloadCache, heap, tagMappings, inFlightRequests, tasks,
                 phase, lastTrack, updInput>>

\* line 297: updateLastAccess; then the branch on exists (line 299)
GwTouch(h) ==
  /\ Alive /\ ~CacheRHeld
  /\ hs[h].pc = "gw1"
  /\ heap' = TouchHeap(hs[h].apiKey)
  /\ SetH(h, [hs[h] EXCEPT !.pc = IF hs[h].exists THEN "gwLen" ELSE "gwStart1"])
  /\ UNCHANGED <<now, workloadCache, tagMappings, inFlightRequests, tasks,
                 phase, lastTrack, updInput>>

\* line 301: no registry was found: startCacheRefresh
GwStart1(h) ==
  /\ Alive /\ ~CacheRHeld
  /\ hs[h].pc = "gwStart1"
  /\ startCacheRefresh(hs[h].apiKey)
  /\ SetH(h, [hs[h] EXCEPT !.pc = "gwFetch1"])
  /\ UNCHANGED <<now, tagMappings, inFlightRequests, phase, lastTrack, updInput>>

\* a return of getWorkloads: the position after the call in ProxyHandler
GwReturn(r, workloads, err) ==
  [r EXCEPT !.pc = "gwRet", !.wl = workloads, !.err = err, !.exists = FALSE, !.cache = 0]

\* lines 303-306: the fetch of a call that found no registry; a failure is
\* returned to the caller
GwFetch1(h) ==
  /\ Alive
  /\ hs[h].pc = "gwFetch1"
  /\ \E o \in FetchOutcomes :
       SetH(h, IF o.ok
               THEN [hs[h] EXCEPT !.pc = "gwUpd1", !.wl = o.list, !.fetch = "ok"]
               ELSE GwReturn([hs[h] EXCEPT !.fetch = "failed"], <<>>, TRUE))
  /\ UNCHANGED <<now, workloadCache, heap, tagMappings, inFlightRequests, tasks,
                 phase, lastTrack, updInput>>

\* lines 307-308: updateCache, return workloads
GwUpdate1(h) ==
  /\ Alive /\ ~CacheRHeld
  /\ hs[h].pc = "gwUpd1"
  /\ updateCache(hs[h].apiKey, hs[h].wl)
  /\ SetH(h, GwReturn(hs[h], hs[h].wl, FALSE))
  /\ UNCHANGED <<now, workloadCache, inFlightRequests, tasks, phase, lastTrack, updInput>>

\* line 311: cache.Workloads == nil || len(cache.Workloads) == 0, read without
\* the lock
GwLen(h) ==
  /\ Alive
  /\ hs[h].pc = "gwLen"
  /\ SetH(h, [hs[h] EXCEPT !.pc = IF Len(heap[hs[h].cache].Workloads) = 0
                                  THEN "gwFetch2" ELSE "gwScan"])
  /\ UNCHANGED <<now, workloadCache, heap, tagMappings, inFlightRequests, tasks,
                 phase, lastTrack, updInput>>

\* lines 313-316: the fetch of a call that found an empty list; a failure is
\* returned to the caller
GwFetch2(h) ==
  /\ Alive
  /\ hs[h].pc = "gwFetch2"
  /\ \E o \in FetchOutcomes :
       SetH(h, IF o.ok
               THEN [hs[h] EXCEPT !.pc = "gwUpd2", !.wl = o.list, !.fetch = "ok"]
               ELSE GwReturn([hs[h] EXCEPT !.fetch = "failed"], <<>>, TRUE))
  /\ UNCHANGED <<now, workloadCache, heap, tagMappings, inFlightRequests, tasks,
                 phase, lastTrack, updInput>>

\* line 319: updateCache of the empty-list path
GwUpdate2(h) ==
  /\ Alive /\ ~CacheRHeld
  /\ hs[h].pc = "gwUpd2"
  /\ updateCache(hs[h].apiKey, hs[h].wl)
  /\ SetH(h, [hs[h] EXCEPT !.pc = "gwStart2"])
  /\ UNCHANGED <<now, workloadCache, inFlightRequests, tasks, phase, lastTrack, updInput>>

\* lines 323-325: startCacheRefresh, return workloads
GwStart2(h) ==
  /\ Alive /\ ~CacheRHeld
  /\ hs[h].pc = "gwStart2"
  /\ startCacheRefresh(hs[h].apiKey)
  /\ SetH(h, GwReturn(hs[h], hs[h].wl, FALSE))
  /\ UNCHANGED <<now, tagMappings, inFlightRequests, phase, lastTrack, updInput>>

\* lines 329-341: hasRunningNodes and staleCache under the shared lock
GwScan(h) ==
  /\ Alive
  /\ hs[h].pc = "gwScan"
  /\ LET c == heap[hs[h].cache]
         hasRunningNodes == HasRunning(c.Workloads)
         staleCache == now - c.LastFetch > FreshSeconds
     IN  SetH(h, [hs[h] EXCEPT !.pc = IF ~hasRunningNodes \/ staleCache
                                      THEN "gwFetch3" ELSE "gwCached"])
  /\ UNCHANGED <<now, workloadCache, heap, tagMappings, inFlightRequests, tasks,
                 phase, lastTrack, updInput>>

\* line 350: the refresh of a stale list, or of one without running nodes
GwFetch3(h) ==
  /\ Alive
  /\ hs[h].pc = "gwFetch3"
  /\ \E o \in FetchOutcomes :
       SetH(h, [hs[h] EXCEPT !.pc = IF o.ok THEN "gwUpd3" ELSE "gwFallback",
                             !.wl = o.list,
                             !.fetch = IF o.ok THEN "ok" ELSE "failed"])
  /\ UNCHANGED <<now, workloadCache, heap, tagMappings, inFlightRequests, tasks,
                 phase, lastTrack, updInput>>

\* the fallback answering with the error instead
GwFallbackFails(h) ==
  /\ Alive
  /\ hs[h].pc = "gwFallback"
  /\ SetH(h, GwReturn(hs[h], <<>>, TRUE))
  /\ UNCHANGED <<now, workloadCache, heap, tagMappings, inFlightRequests, tasks,
                 phase, lastTrack, updInput>>

\* lines 352-356: on error, return the cached workloads as fallback
GwFallback(h) ==
  /\ Alive
  /\ hs[h].pc = "gwFallback"
  /\ SetH(h, GwReturn(hs[h], heap[hs[h].cache].Workloads, FALSE))
  /\ UNCHANGED <<now, workloadCache, heap, tagMappings, inFlightRequests, tasks,
                 phase, lastTrack, updInput>>

\* lines 359-360: updateCache, return workloads
GwUpdate3(h) ==
  /\ Alive /\ ~CacheRHeld
  /\ hs[h].pc = "gwUpd3"
  /\ updateCache(hs[h].apiKey, hs[h].wl)
  /\ SetH(h, GwReturn(hs[h], hs[h].wl, FALSE))
  /\ UNCHANGED <<now, workloadCache, inFlightRequests, tasks, phase, lastTrack, updInput>>

\* lines 363-365: the list is fresh: return cache.Workloads under the shared lock
GwCached(h) ==
  /\ Alive
  /\ hs[h].pc = "gwCached"
  /\ SetH(h, GwReturn(hs[h], heap[hs[h].cache].Workloads, FALSE))
  /\ UNCHANGED <<now, workloadCache, heap, tagMappings, inFlightRequests, tasks,
                 phase, lastTrack, updInput>>

(* ------------------- ProxyHandler after getWorkloads ------------------ *)
\* an answer without forwarding
Respond(r, status) ==
  [IdleHandler EXCEPT !.pc = "done", !.apiKey = r.apiKey, !.kind = r.kind, !.tag = r.tag,
                      !.seg = r.seg, !.status = status]

\* lines 126-175: /workloads answers with the list; a getWorkloads error is a
\* 500; otherwise the path decides between tag and index routing, and an index
\* segment that Atoi rejects is a 400
Route(h) ==
  /\ Alive
  /\ hs[h].pc = "gwRet"
  /\ SetH(h, IF hs[h].err THEN Respond(hs[h], 500)
             ELSE IF hs[h].kind = "workloads" THEN Respond(hs[h], 200)
             ELSE IF hs[h].kind = "tag"
             THEN [hs[h] EXCEPT !.pc = "lb0", !.wl = <<>>, !.fetch = "none"]
             ELSE IF ~Atoi(hs[h].seg).ok THEN Respond(hs[h], 400)   \* "/" has the segment ""
             ELSE [hs[h] EXCEPT !.pc = "frFetch", !.wl = <<>>, !.fetch = "none",
                                !.idx = Atoi(hs[h].seg).val])
  /\ UNCHANGED <<now, workloadCache, heap, tagMappings, inFlightRequests, tasks,
                 phase, lastTrack, updInput>>

(* --------------------------- GetLeastBusyNode ------------------------- *)
\* lines 8-22: does the registry hold a running node?
LbCheck(h) ==
  /\ Alive
  /\ hs[h].pc = "lb0"
  /\ LET k == hs[h].apiKey
         nodesExist == k \in DOMAIN workloadCache /\ HasRunning(heap[workloadCache[k]].Workloads)
     IN  SetH(h, [hs[h] EXCEPT !.pc = IF nodesExist THEN "lbSel" ELSE "frFetch"])
  /\ UNCHANGED <<now, workloadCache, heap, tagMappings, inFlightRequests, tasks,
                 phase, lastTrack, updInput>>

(* ------------------------- forceRefreshWorkloads ---------------------- *)
\* where forceRefreshWorkloads returns to
AfterRefresh(r) == IF r.kind = "tag" THEN "lbSel" ELSE "idxSel"

\* lines 86-89: the fetch; a failure is a 404 from the tag route
\* (loadbalancer.go 24-25, ProxyHandler 160-163) and a 500 from the index route
\* (ProxyHandler 178-183)
FrFetch(h) ==
  /\ Alive
  /\ hs[h].pc = "frFetch"
  /\ \E o \in FetchOutcomes :
       SetH(h, IF o.ok THEN [hs[h] EXCEPT !.pc = "frUpd", !.wl = o.list]
               ELSE Respond(hs[h], IF hs[h].kind = "tag" THEN 404 ELSE 500))
  /\ UNCHANGED <<now, workloadCache, heap, tagMappings, inFlightRequests, tasks,
                 phase, lastTrack, updInput>>

\* line 91: updateCache
FrUpdate(h) ==
  /\ Alive /\ ~CacheRHeld
  /\ hs[h].pc = "frUpd"
  /\ updateCache(hs[h].apiKey, hs[h].wl)
  /\ SetH(h, [hs[h] EXCEPT !.pc = "frChk"])
  /\ UNCHANGED <<now, workloadCache, inFlightRequests, tasks, phase, lastTrack, updInput>>

\* lines 94-98: is there a registry?
FrCheck(h) ==
  /\ Alive
  /\ hs[h].pc = "frChk"
  /\ SetH(h, [hs[h] EXCEPT !.pc = IF hs[h].apiKey \in DOMAIN workloadCache
                                  THEN AfterRefresh(hs[h]) ELSE "frStart"])
  /\ UNCHANGED <<now, workloadCache, heap, tagMappings, inFlightRequests, tasks,
                 phase, lastTrack, updInput>>

\* lines 99-102: startCacheRefresh, return workloads
FrStart(h) ==
  /\ Alive /\ ~CacheRHeld
  /\ hs[h].pc = "frStart"
  /\ startCacheRefresh(hs[h].apiKey)
  /\ SetH(h, [hs[h] EXCEPT !.pc = AfterRefresh(hs[h])])
  /\ UNCHANGED <<now, tagMappings, inFlightRequests, phase, lastTrack, updInput>>

\* the candidates taken from the tag index alone: "all" as the nodes listed
\* under some tag
CandidatesOfIndex(k, tag) ==
  IF k \in DOMAIN tagMappings
  THEN IF tag = "all"
       THEN IF DOMAIN tagMappings[k] = {} THEN <<>>
            ELSE tagMappings[k][CHOOSE tg \in DOMAIN tagMappings[k] :
                                  \A ug \in DOMAIN tagMappings[k] :
                                    Len(tagMappings[k][ug]) <= Len(tagMappings[k][tg])]
       ELSE IF tag \in DOMAIN tagMappings[k] THEN tagMappings[k][tag] ELSE <<>>
  ELSE <<>>

(* ---------------------- GetLeastBusyNode, continued ------------------- *)
\* lines 35-63: the candidates of a tag; <<>> stands for each error return
Candidates(k, tag) ==
  IF tag = "all"
  THEN IF k \in DOMAIN workloadCache
       THEN RunningNodes(heap[workloadCache[k]].Workloads) ELSE <<>>
  ELSE IF k \in DOMAIN tagMappings /\ tag \in DOMAIN tagMappings[k]
       THEN tagMappings[k][tag] ELSE <<>>

\* the selection going on to the scan with whatever candidates there are
LbSelectUnchecked(h) ==
  /\ Alive
  /\ hs[h].pc = "lbSel"
  /\ LET k == hs[h].apiKey
         nodes == Candidates(k, hs[h].tag)
     IN  SetH(h, IF k \in DOMAIN inFlightRequests
                 THEN [hs[h] EXCEPT !.pc = "proxy", !.wl = <<>>,
                                    !.node = ScanNodes(nodes, inFlightRequests[k], -1, "")]
                 ELSE [hs[h] EXCEPT !.pc = "lbMk", !.wl = <<>>, !.nodes = nodes])
  /\ UNCHANGED <<now, workloadCache, heap, tagMappings, inFlightRequests, tasks,
                 phase, lastTrack, updInput>>

\* lines 29-84: both shared locks, the candidates, and the scan when the tenant
\* has a counter table; without one the shared counter lock is given up (line 66)
LbSelect(h) ==
  /\ Alive
  /\ hs[h].pc = "lbSel"
  /\ LET k == hs[h].apiKey
         nodes == Candidates(k, hs[h].tag)
     IN  SetH(h, IF Len(nodes) = 0 THEN Respond(hs[h], 404)
                 ELSE IF k \in DOMAIN inFlightRequests
                 THEN [hs[h] EXCEPT !.pc = "proxy", !.wl = <<>>,
                                    !.node = ScanNodes(nodes, inFlightRequests[k], -1, "")]
                 ELSE [hs[h] EXCEPT !.pc = "lbMk", !.wl = <<>>, !.nodes = nodes])
  /\ UNCHANGED <<now, workloadCache, heap, tagMappings, inFlightRequests, tasks,
                 phase, lastTrack, updInput>>

\* the table made only when there is still none
LbMakeTableChecked(h) ==
  /\ Alive
  /\ hs[h].pc = "lbMk"
  /\ inFlightRequests' = IF hs[h].apiKey \in DOMAIN inFlightRequests THEN inFlightRequests
                         ELSE Put(inFlightRequests, hs[h].apiKey, EmptyMap)
  /\ SetH(h, [hs[h] EXCEPT !.pc = "lbScan"])
  /\ UNCHANGED <<now, workloadCache, heap, tagMappings, tasks, phase, lastTrack, updInput>>

\* lines 67-69: under the exclusive counter lock,
\* p.inFlightRequests[apiKey] = make(map[string]int)
LbMakeTable(h) ==
  /\ Alive
  /\ hs[h].pc = "lbMk"
  /\ inFlightRequests' = Put(inFlightRequests, hs[h].apiKey, EmptyMap)
  /\ SetH(h, [hs[h] EXCEPT !.pc = "lbScan"])
  /\ UNCHANGED <<now, workloadCache, heap, tagMappings, tasks, phase, lastTrack, updInput>>

\* lines 70-84: the shared counter lock again, and the scan
LbScan(h) ==
  /\ Alive
  /\ hs[h].pc = "lbScan"
  /\ SetH(h, [hs[h] EXCEPT !.pc = "proxy", !.nodes = <<>>,
                !.node = ScanNodes(hs[h].nodes, NodeCounts(inFlightRequests, hs[h].apiKey), -1, "")])
  /\ UNCHANGED <<now, workloadCache, heap, tagMappings, inFlightRequests, tasks,
                 phase, lastTrack, updInput>>

\* the index route counting the workloads from 1
IdxSelectFromOne(h) ==
  /\ Alive
  /\ hs[h].pc = "idxSel"
  /\ LET runningWorkloads == RunningNodes(hs[h].wl)
         index == hs[h].idx
     IN  SetH(h, IF index < 1 \/ index > Len(runningWorkloads) THEN Respond(hs[h], 404)
                 ELSE [hs[h] EXCEPT !.pc = "proxy", !.wl = <<>>,
                                    !.node = runningWorkloads[index],
                                    !.rest = JoinParts(SplitRest(hs[h].rest))])
  /\ UNCHANGED <<now, workloadCache, heap, tagMappings, inFlightRequests, tasks,
                 phase, lastTrack, updInput>>

(* ----------------------- ProxyHandler, index route -------------------- *)
\* lines 185-217: the index among the running workloads of the forced refresh
IdxSelect(h) ==
  /\ Alive
  /\ hs[h].pc = "idxSel"
  /\ LET runningWorkloads == RunningNodes(hs[h].wl)
         index == hs[h].idx
     IN  SetH(h, IF Len(runningWorkloads) = 0 THEN Respond(hs[h], 404)
                 ELSE IF index < 0 \/ index >= Len(runningWorkloads) THEN Respond(hs[h], 404)
                 ELSE [hs[h] EXCEPT !.pc = "proxy", !.wl = <<>>,
                                    !.node = runningWorkloads[index + 1],
                                    !.rest = JoinParts(SplitRest(hs[h].rest))])
  /\ UNCHANGED <<now, workloadCache, heap, tagMappings, inFlightRequests, tasks,
                 phase, lastTrack, updInput>>

(* --------------------------- HandleProxyRequest ----------------------- *)
\* TrackRequest(apiKey, node, delta), under the exclusive counter lock
TrackRequest(apiKey, node, delta) ==
  inFlightRequests' = TrackMap(inFlightRequests, apiKey, node, delta)

\* lines 20-31: http.NewRequest fails (500, nothing counted), or the count of
\* the node is incremented
HpBegin(h) ==
  /\ Alive
  /\ hs[h].pc = "proxy"
  /\ \E built \in BOOLEAN :
       IF built
       THEN /\ TrackRequest(hs[h].apiKey, hs[h].node, 1)
            /\ SetH(h, [hs[h] EXCEPT !.pc = "hpCall"])
       ELSE /\ UNCHANGED inFlightRequests
            /\ SetH(h, Respond(hs[h], 500))
  /\ UNCHANGED <<now, workloadCache, heap, tagMappings, tasks, phase, lastTrack, updInput>>

\* how the call to the node and the relay of its answer end
CallOutcomes == {"transport", "ok", "read", "write"}

\* lines 47-91: client.Do and the copy of the response; a transport error is a
\* 502, otherwise the upstream status (200 here) is already sent when a read or
\* write error ends the copy
HpCall(h) ==
  /\ Alive
  /\ hs[h].pc = "hpCall"
  /\ \E o \in CallOutcomes :
       SetH(h, [hs[h] EXCEPT !.pc = "hpDec", !.status = IF o = "transport" THEN 502 ELSE 200])
  /\ UNCHANGED <<now, workloadCache, heap, tagMappings, inFlightRequests, tasks,
                 phase, lastTrack, updInput>>

\* the status codes a node answers with; 302 comes with a Location header
NodeCodes == {200, 404, 302}
IsRedirect(code) == code = 302

\* the bodies of the relay specification, as the results of successive reads:
\* empty, one chunk then EOF, the last chunk together with EOF, a read error
\* after two chunks, a read of nothing in between and data with the error
Bodies ==
  {<<ReadResult("", "eof")>>,
   <<ReadResult("a", "nil"), ReadResult("", "eof")>>,
   <<ReadResult("a", "nil"), ReadResult("b", "eof")>>,
   <<ReadResult("a", "nil"), ReadResult("b", "nil"), ReadResult("", "fail")>>,
   <<ReadResult("a", "nil"), ReadResult("", "nil"), ReadResult("b", "fail")>>}

\* what has been written to the caller
HeadEvent == [ev |-> "head", data |-> ""]
DataEvent(d) == [ev |-> "data", data |-> d]
FlushEvent == [ev |-> "flush", data |-> ""]

\* lines 47-54: client.Do. A transport error is a 502. The client is
\* http.Client{} with no CheckRedirect, so it follows a redirect of the node by
\* a second request, and the response it returns is the answer to that one
HpDo(h) ==
  /\ Alive
  /\ hs[h].pc = "hpCall"
  /\ \E failed \in BOOLEAN, answer \in NodeCodes, final \in NodeCodes \ {302},
        body \in Bodies, flusher \in BOOLEAN :
       SetH(h, IF failed /\ ~IsRedirect(answer)
               THEN [hs[h] EXCEPT !.pc = "hpDec", !.status = 502,
                                  !.relay = [NoRelay EXCEPT !.sent = 1]]
               ELSE IF failed
               THEN [hs[h] EXCEPT !.pc = "hpDec", !.status = 502,
                                  !.relay = [NoRelay EXCEPT !.sent = 2, !.answer = answer]]
               ELSE [hs[h] EXCEPT !.pc = "hpHdr",
                       !.relay = [NoRelay EXCEPT
                                    !.answer = answer,
                                    !.sent = IF IsRedirect(answer) THEN 2 ELSE 1,
                                    !.code = IF IsRedirect(answer) THEN final ELSE answer,
                                    !.src = body, !.reads = body, !.flusher = flusher]])
  /\ UNCHANGED <<now, workloadCache, heap, tagMappings, inFlightRequests, tasks,
                 phase, lastTrack, updInput>>

\* lines 56-57: copyHeader and WriteHeader(resp.StatusCode)
HpHeader(h) ==
  /\ Alive
  /\ hs[h].pc = "hpHdr"
  /\ SetH(h, [hs[h] EXCEPT !.pc = "hpRead", !.status = hs[h].relay.code,
                           !.relay.out = Append(@, HeadEvent)])
  /\ UNCHANGED <<now, workloadCache, heap, tagMappings, inFlightRequests, tasks,
                 phase, lastTrack, updInput>>

\* where the copy goes after a read result is dealt with (lines 76-82)
AfterChunk(r) == IF r.relay.cur.err = "nil" THEN "hpRead" ELSE "hpDec"

\* line 68 (and the read of io.Copy): n, err := resp.Body.Read(buf)
HpRead(h) ==
  /\ Alive
  /\ hs[h].pc = "hpRead"
  /\ LET r == [hs[h] EXCEPT !.relay.cur = Head(hs[h].relay.reads), !.relay.reads = Tail(@)]
     IN  SetH(h, [r EXCEPT !.pc = IF r.relay.cur.data # "" THEN "hpWrite" ELSE AfterChunk(r)])
  /\ UNCHANGED <<now, workloadCache, heap, tagMappings, inFlightRequests, tasks,
                 phase, lastTrack, updInput>>

\* lines 69-73 (and the write of io.Copy): w.Write(buf[:n]); a write error
\* ends the copy
HpWrite(h) ==
  /\ Alive
  /\ hs[h].pc = "hpWrite"
  /\ \E written \in BOOLEAN :
       SetH(h, IF ~written THEN [hs[h] EXCEPT !.pc = "hpDec"]
               ELSE [hs[h] EXCEPT !.pc = IF hs[h].relay.flusher THEN "hpFlush"
                                         ELSE AfterChunk(hs[h]),
                                  !.relay.out = Append(@, DataEvent(hs[h].relay.cur.data))])
  /\ UNCHANGED <<now, workloadCache, heap, tagMappings, inFlightRequests, tasks,
                 phase, lastTrack, updInput>>

\* line 74: f.Flush()
HpFlush(h) ==
  /\ Alive
  /\ hs[h].pc = "hpFlush"
  /\ SetH(h, [hs[h] EXCEPT !.pc = AfterChunk(hs[h]), !.relay.out = Append(@, FlushEvent)])
  /\ UNCHANGED <<now, workloadCache, heap, tagMappings, inFlightRequests, tasks,
                 phase, lastTrack, updInput>>

\* lines 37-43: the deferred decrement
HpDec(h) ==
  /\ Alive
  /\ hs[h].pc = "hpDec"
  /\ TrackRequest(hs[h].apiKey, hs[h].node, -1)
  /\ SetH(h, Respond(hs[h], hs[h].status))
  /\ UNCHANGED <<now, workloadCache, heap, tagMappings, tasks, phase, lastTrack, updInput>>

\* ProxyHandler has returned; the goroutine is free for the next request
Finish(h) ==
  /\ Alive
  /\ hs[h].pc = "done"
  /\ SetH(h, IdleHandler)
  /\ UNCHANGED <<now, workloadCache, heap, tagMappings, inFlightRequests, tasks,
                 phase, lastTrack, updInput>>

(* ------------------- the background refresh goroutine ----------------- *)
\* lines 216-226: the registry of the tenant and its LastAccess, under the
\* shared lock; without a registry the goroutine returns
TaskCheck(t) ==
  /\ Alive
  /\ tasks[t].pc = "check"
  /\ LET k == tasks[t].apiKey
     IN  SetT(t, IF k \notin DOMAIN workloadCache THEN FreeTask
                 ELSE [tasks[t] EXCEPT !.pc = "count", !.cache = workloadCache[k],
                                       !.lastAccess = heap[workloadCache[k]].LastAccess])
  /\ UNCHANGED <<now, workloadCache, heap, tagMappings, inFlightRequests, hs,
                 phase, lastTrack, updInput>>

\* some node of the tenant has a count above 0
HasActiveRequests(k) ==
  \E n \in DOMAIN NodeCounts(inFlightRequests, k) : inFlightRequests[k][n] > 0

\* lines 229-241: hasActiveRequests, under the shared counter lock
TaskCount(t) ==
  /\ Alive
  /\ tasks[t].pc = "count"
  /\ SetT(t, [tasks[t] EXCEPT !.pc = "decide", !.hasActive = HasActiveRequests(tasks[t].apiKey)])
  /\ UNCHANGED <<now, workloadCache, heap, tagMappings, inFlightRequests, hs,
                 phase, lastTrack, updInput>>

\* the test of line 244 on the values the goroutine read
MustEvict(r) == now - r.lastAccess > IdleSeconds /\ ~r.hasActive

\* the eviction that forgets the tag index
TaskDecideKeepTags(t) ==
  /\ Alive
  /\ tasks[t].pc = "decide"
  /\ IF MustEvict(tasks[t])
     THEN /\ ~CacheRHeld
          /\ workloadCache' = Delete(workloadCache, tasks[t].apiKey)
          /\ UNCHANGED tagMappings
          /\ SetT(t, FreeTask)
     ELSE /\ SetT(t, [tasks[t] EXCEPT !.pc = "fetch", !.cache = 0, !.lastAccess = 0,
                                      !.hasActive = FALSE, !.err = FALSE])
          /\ UNCHANGED <<workloadCache, tagMappings>>
  /\ UNCHANGED <<now, heap, inFlightRequests, hs, phase, lastTrack, updInput>>

\* the eviction that returns without deleting the registry
TaskDecideKeepRegistry(t) ==
  /\ Alive
  /\ tasks[t].pc = "decide"
  /\ IF MustEvict(tasks[t])
     THEN /\ ~CacheRHeld
          /\ SetT(t, FreeTask)
     ELSE /\ SetT(t, [tasks[t] EXCEPT !.pc = "fetch", !.cache = 0, !.lastAccess = 0,
                                      !.hasActive = FALSE, !.err = FALSE])
  /\ UNCHANGED <<now, workloadCache, tagMappings, heap, inFlightRequests, hs, phase,
                 lastTrack, updInput>>

\* lines 243-262: time.Since(lastAccess); idle for more than 180 s with nothing
\* in flight: under the exclusive lock the registry and the tag index are
\* deleted if the registry is still the one read at line 217, and the goroutine
\* returns; otherwise on to the fetch
TaskDecide(t) ==
  /\ Alive
  /\ tasks[t].pc = "decide"
  /\ IF MustEvict(tasks[t])
     THEN /\ ~CacheRHeld
          /\ LET k == tasks[t].apiKey
                 ours == k \in DOMAIN workloadCache /\ workloadCache[k] = tasks[t].cache
             IN  /\ workloadCache' = IF ours THEN Delete(workloadCache, k) ELSE workloadCache
                 /\ tagMappings' = IF ours THEN Delete(tagMappings, k) ELSE tagMappings
          /\ SetT(t, FreeTask)
     ELSE /\ SetT(t, [tasks[t] EXCEPT !.pc = "fetch", !.cache = 0, !.lastAccess = 0,
                                      !.hasActive = FALSE, !.err = FALSE])
          /\ UNCHANGED <<workloadCache, tagMappings>>
  /\ UNCHANGED <<now, heap, inFlightRequests, hs, phase, lastTrack, updInput>>

\* the fetch of a tick that ends the goroutine when it fails
TaskFetchStopsOnError(t) ==
  /\ Alive
  /\ tasks[t].pc = "fetch"
  /\ \E o \in FetchOutcomes :
       SetT(t, IF o.ok THEN [tasks[t] EXCEPT !.pc = "update", !.wl = o.list]
               ELSE FreeTask)
  /\ UNCHANGED <<now, workloadCache, heap, tagMappings, inFlightRequests, hs,
                 phase, lastTrack, updInput>>

\* lines 265-267: the fetch of the tick; a failure is logged
TaskFetch(t) ==
  /\ Alive
  /\ tasks[t].pc = "fetch"
  /\ \E o \in FetchOutcomes :
       SetT(t, IF o.ok THEN [tasks[t] EXCEPT !.pc = "update", !.wl = o.list]
               ELSE [tasks[t] EXCEPT !.pc = "wait", !.err = TRUE])
  /\ UNCHANGED <<now, workloadCache, heap, tagMappings, inFlightRequests, hs,
                 phase, lastTrack, updInput>>

\* lines 269-277: updateCache
TaskUpdate(t) ==
  /\ Alive /\ ~CacheRHeld
  /\ tasks[t].pc = "update"
  /\ updateCache(tasks[t].apiKey, tasks[t].wl)
  /\ SetT(t, [tasks[t] EXCEPT !.pc = "wait", !.wl = <<>>])
  /\ UNCHANGED <<now, workloadCache, inFlightRequests, hs, phase, lastTrack, updInput>>

\* the first tick of the ticker's schedule after now
NextTickAfter(nextTick) == nextTick + TickSeconds * ((now - nextTick) \div TickSeconds + 1)

\* lines 280-282: case <-ticker.C
TaskTick(t) ==
  /\ Alive
  /\ tasks[t].pc = "wait"
  /\ now >= tasks[t].nextTick
  /\ SetT(t, [tasks[t] EXCEPT !.pc = "check", !.nextTick = NextTickAfter(tasks[t].nextTick),
                              !.stopTicks = IF heap[tasks[t].newCache].StopRefresh = "closed"
                                            THEN @ + 1 ELSE @])
  /\ UNCHANGED <<now, workloadCache, heap, tagMappings, inFlightRequests, hs,
                 phase, lastTrack, updInput>>

\* lines 283-285: case <-newCache.StopRefresh
TaskStop(t) ==
  /\ Alive
  /\ tasks[t].pc = "wait"
  /\ heap[tasks[t].newCache].StopRefresh = "closed"
  /\ SetT(t, FreeTask)
  /\ UNCHANGED <<now, workloadCache, heap, tagMappings, inFlightRequests, hs,
                 phase, lastTrack, updInput>>

(* -------------------------------- shutdown ---------------------------- *)
\* a shutdown that signals no goroutine
CleanupNoSignal ==
  /\ phase = "running"
  /\ ~CacheRHeld
  /\ phase' = "cleanup"
  /\ UNCHANGED <<now, workloadCache, heap, tagMappings, inFlightRequests, hs, tasks,
                 lastTrack, updInput>>

\* Cleanup: close the StopRefresh channel of every registry in the table
Cleanup ==
  /\ phase = "running"
  /\ ~CacheRHeld
  /\ heap' = [c \in DOMAIN heap |->
                IF \E k \in DOMAIN workloadCache : workloadCache[k] = c
                THEN [heap[c] EXCEPT !.StopRefresh = "closed"] ELSE heap[c]]
  /\ phase' = "cleanup"
  /\ UNCHANGED <<now, workloadCache, tagMappings, inFlightRequests, hs, tasks,
                 lastTrack, updInput>>

\* os.Exit(0) after Cleanup
Exit ==
  /\ phase = "cleanup"
  /\ phase' = "exited"
  /\ UNCHANGED <<now, workloadCache, heap, tagMappings, inFlightRequests, hs, tasks,
                 lastTrack, updInput>>

(* ------------------------- the two RWMutexes -------------------------- *)
\* the locks each step of a request goroutine runs under, from the Lock and
\* RLock calls of the source: updateLastAccess, startCacheRefresh and
\* updateCache take cacheLock exclusively; the lookups of getWorkloads (292,
\* 329, 354, 363), GetLeastBusyNode (8) and forceRefreshWorkloads (94) take it
\* shared; GetLeastBusyNode takes requestLock shared (29) and then cacheLock
\* shared (32), swaps requestLock to exclusive for the new table (66-69) and
\* back to shared (70); TrackRequest takes requestLock exclusively. The read
\* of line 311 and the fetches run under no lock
WantH(r) ==
  IF r.pc \in {"idle", "gw1", "gwStart1", "gwUpd1", "gwUpd2", "gwStart2", "gwUpd3",
               "frUpd", "frStart"}
  THEN [c |-> "W", r |-> ""]
  ELSE IF r.pc \in {"gw0", "gwScan", "gwFallback", "gwCached", "lb0", "frChk"}
  THEN [c |-> "R", r |-> ""]
  ELSE IF r.pc \in {"lbSel", "lbScan"} THEN [c |-> "R", r |-> "R"]
  ELSE IF r.pc = "lbMk" THEN [c |-> "R", r |-> "W"]
  ELSE IF r.pc \in {"proxy", "hpDec"} THEN [c |-> "", r |-> "W"]
  ELSE [c |-> "", r |-> ""]

\* the locks of the refresh goroutine: cacheLock shared at 216, requestLock
\* shared at 229, cacheLock exclusive for the eviction (249) and in updateCache
WantT(r) ==
  IF r.pc = "check" THEN [c |-> "R", r |-> ""]
  ELSE IF r.pc = "count" THEN [c |-> "", r |-> "R"]
  ELSE IF r.pc = "update" \/ (r.pc = "decide" /\ MustEvict(r)) THEN [c |-> "W", r |-> ""]
  ELSE [c |-> "", r |-> ""]

\* a lock that was taken for an earlier position and is given up before the
\* goroutine goes on; GetLeastBusyNode keeps cacheLock from line 32 to its return
Stale(r, l) ==
  /\ r.lk[l] \in {"R", "W"}
  /\ r.lk.at # r.pc
  /\ ~(l = "c" /\ r.pc \in {"lbMk", "lbScan"})

\* the lock given up next: the deferred RUnlock of cacheLock runs first
NextRelease(r) == IF Stale(r, "c") THEN "c" ELSE IF Stale(r, "r") THEN "r" ELSE ""

\* the lock taken next: requestLock before cacheLock (lines 29, 32)
Missing(r, want) ==
  IF want.r # "" /\ r.lk.r # want.r THEN "r"
  ELSE IF want.c # "" /\ r.lk.c # want.c THEN "c" ELSE ""

\* the goroutine holds what its step needs and nothing else
Ready(r, want) == NextRelease(r) = "" /\ r.lk.c = want.c /\ r.lk.r = want.r

\* what the goroutines other than self hold of lock l
OthersHave(l, modes, self) ==
  \/ \E h \in Handlers : <<"h", h>> # self /\ hs[h].lk[l] \in modes
  \/ \E t \in TaskIds : <<"t", t>> # self /\ tasks[t].lk[l] \in modes

\* sync.RWMutex: RLock waits while a writer holds the lock or is inside Lock;
\* Lock waits for the readers and the writer to leave
CanRLock(l, self) == ~OthersHave(l, {"W", "pend"}, self)
CanLock(l, self) == ~OthersHave(l, {"R", "W"}, self)

\* a goroutine with record r is at an Unlock or RUnlock
Unlocks(r) == NextRelease(r) # ""

\* it is at a Lock() call it has not made yet
CallsLock(r, want) ==
  /\ NextRelease(r) = "" /\ Missing(r, want) # ""
  /\ want[Missing(r, want)] = "W" /\ r.lk[Missing(r, want)] = ""

\* it is inside Lock() and the lock is free for it
GetsLock(r, want, self) ==
  /\ NextRelease(r) = "" /\ Missing(r, want) # ""
  /\ want[Missing(r, want)] = "W" /\ r.lk[Missing(r, want)] = "pend"
  /\ CanLock(Missing(r, want), self)

\* it is at an RLock() call that can return
GetsRLock(r, want, self) ==
  /\ NextRelease(r) = "" /\ Missing(r, want) # ""
  /\ want[Missing(r, want)] = "R" /\ r.lk[Missing(r, want)] = ""
  /\ CanRLock(Missing(r, want), self)

\* Unlock / RUnlock
HUnlock(h) ==
  /\ Alive /\ Unlocks(hs[h])
  /\ SetH(h, [hs[h] EXCEPT !.lk[NextRelease(hs[h])] = ""])
  /\ UNCHANGED <<now, workloadCache, heap, tagMappings, inFlightRequests, tasks,
                 phase, lastTrack, updInput>>
TUnlock(t) ==
  /\ Alive /\ Unlocks(tasks[t])
  /\ SetT(t, [tasks[t] EXCEPT !.lk[NextRelease(tasks[t])] = ""])
  /\ UNCHANGED <<now, workloadCache, heap, tagMappings, inFlightRequests, hs,
                 phase, lastTrack, updInput>>

\* Lock() is called: from now on new readers wait
HLockCall(h) ==
  /\ Alive /\ CallsLock(hs[h], WantH(hs[h]))
  /\ SetH(h, [hs[h] EXCEPT !.lk[Missing(hs[h], WantH(hs[h]))] = "pend", !.lk.at = hs[h].pc])
  /\ UNCHANGED <<now, workloadCache, heap, tagMappings, inFlightRequests, tasks,
                 phase, lastTrack, updInput>>
TLockCall(t) ==
  /\ Alive /\ CallsLock(tasks[t], WantT(tasks[t]))
  /\ SetT(t, [tasks[t] EXCEPT !.lk[Missing(tasks[t], WantT(tasks[t]))] = "pend",
                              !.lk.at = tasks[t].pc])
  /\ UNCHANGED <<now, workloadCache, heap, tagMappings, inFlightRequests, hs,
                 phase, lastTrack, updInput>>

\* Lock() returns
HLockGet(h) ==
  /\ Alive /\ GetsLock(hs[h], WantH(hs[h]), <<"h", h>>)
  /\ SetH(h, [hs[h] EXCEPT !.lk[Missing(hs[h], WantH(hs[h]))] = "W"])
  /\ UNCHANGED <<now, workloadCache, heap, tagMappings, inFlightRequests, tasks,
                 phase, lastTrack, updInput>>
TLockGet(t) ==
  /\ Alive /\ GetsLock(tasks[t], WantT(tasks[t]), <<"t", t>>)
  /\ SetT(t, [tasks[t] EXCEPT !.lk[Missing(tasks[t], WantT(tasks[t]))] = "W"])
  /\ UNCHANGED <<now, workloadCache, heap, tagMappings, inFlightRequests, hs,
                 phase, lastTrack, updInput>>

\* RLock()
HRLock(h) ==
  /\ Alive /\ GetsRLock(hs[h], WantH(hs[h]), <<"h", h>>)
  /\ SetH(h, [hs[h] EXCEPT !.lk[Missing(hs[h], WantH(hs[h]))] = "R", !.lk.at = hs[h].pc])
  /\ UNCHANGED <<now, workloadCache, heap, tagMappings, inFlightRequests, tasks,
                 phase, lastTrack, updInput>>
TRLock(t) ==
  /\ Alive /\ GetsRLock(tasks[t], WantT(tasks[t]), <<"t", t>>)
  /\ SetT(t, [tasks[t] EXCEPT !.lk[Missing(tasks[t], WantT(tasks[t]))] = "R",
                              !.lk.at = tasks[t].pc])
  /\ UNCHANGED <<now, workloadCache, heap, tagMappings, inFlightRequests, hs,
                 phase, lastTrack, updInput>>

\* the goroutine may run the step of its position
HReady(h) == Ready(hs[h], WantH(hs[h]))
TReady(t) == Ready(tasks[t], WantT(tasks[t]))

(* ------------------------------ the system ---------------------------- *)
GwStep(h) ==
  \/ GwLookup(h) \/ GwTouch(h) \/ GwStart1(h) \/ GwFetch1(h) \/ GwUpdate1(h)
  \/ GwLen(h) \/ GwFetch2(h) \/ GwUpdate2(h) \/ GwStart2(h)
  \/ GwScan(h) \/ GwFetch3(h) \/ GwFallback(h) \/ GwUpdate3(h) \/ GwCached(h)
  \/ Route(h) \/ Finish(h)

FrStep(h) == FrFetch(h) \/ FrUpdate(h) \/ FrCheck(h) \/ FrStart(h)

LbStep(h) == LbCheck(h) \/ LbSelect(h) \/ LbMakeTable(h) \/ LbScan(h)

HpStep(h) == HpBegin(h) \/ HpCall(h) \/ HpDec(h)

TaskRun(t) ==
  \/ TaskCheck(t) \/ TaskCount(t) \/ TaskDecide(t) \/ TaskFetch(t) \/ TaskUpdate(t)
  \/ TaskTick(t)

WorkloadsRequests == {r \in Requests : r.kind = "workloads"}
IndexRequests == {r \in Requests : r.kind = "index"}
TagRequests == {r \in Requests : r.kind = "tag"}

\* the whole server: every kind of request, the refresh goroutines, shutdown
Next ==
  \/ Advance
  \/ \E h \in Handlers :
       \/ \E k \in Tenants, r \in Requests : Start(h, k, r)
       \/ GwStep(h) \/ FrStep(h) \/ LbStep(h) \/ IdxSelect(h) \/ HpStep(h)
  \/ \E t \in TaskIds : TaskRun(t) \/ TaskStop(t)
  \/ Cleanup
  \/ Exit

Spec == Init /\ [][Next]_vars

\* time passes between requests: no request lasts into the next clock step
AdvanceBetweenRequests ==
  /\ \A h \in Handlers : hs[h].pc = "idle"
  /\ Advance

\* concurrent GET /workloads requests, each shorter than a clock step, and the
\* refresh goroutines, whose ticks may last any time
NextCache ==
  \/ AdvanceBetweenRequests
  \/ \E h \in Handlers :
       \/ \E k \in Tenants, r \in WorkloadsRequests : Start(h, k, r)
       \/ GwStep(h)
  \/ \E t \in TaskIds : TaskRun(t)

SpecCache == Init /\ [][NextCache]_vars

\* one client at a time, /workloads and /{index} requests, the refresh goroutines
NextEvict ==
  \/ Advance
  \/ \E h \in {1} :
       \/ \E k \in Tenants, r \in WorkloadsRequests \cup IndexRequests : Start(h, k, r)
       \/ GwStep(h) \/ FrStep(h) \/ IdxSelect(h) \/ HpStep(h)
  \/ \E t \in TaskIds : TaskRun(t)

SpecEvict == Init /\ [][NextEvict]_vars

\* concurrent /tags/{tag} and /{index} requests within one refresh period: the
\* clock stands still, so no tick comes and no registry is evicted
NextBalance ==
  \/ \E h \in Handlers :
       \/ \E k \in Tenants, r \in TagRequests \cup IndexRequests : Start(h, k, r)
       \/ GwStep(h) \/ LbStep(h) \/ IdxSelect(h) \/ HpStep(h)
       \/ FrFetch(h) \/ FrUpdate(h) \/ FrCheck(h)
  \/ \E t \in TaskIds :
       TaskCheck(t) \/ TaskCount(t) \/ TaskDecide(t) \/ TaskFetch(t) \/ TaskUpdate(t)

SpecBalance == Init /\ [][NextBalance]_vars

\* one client at a time, /tags/{tag} requests, the refresh goroutines, free clock
NextHeal ==
  \/ Advance
  \/ \E h \in {1} :
       \/ \E k \in Tenants, r \in TagRequests : Start(h, k, r)
       \/ GwStep(h) \/ FrStep(h) \/ LbStep(h) \/ HpStep(h)
  \/ \E t \in TaskIds : TaskRun(t)

SpecHeal == Init /\ [][NextHeal]_vars

\* the index requests /{seg}/{rest} of the index specification
IndexSegs ==
  {<<"0">>, <<"1">>, <<"2">>, <<"-", "1">>, <<"+", "1">>, <<"0", "1">>, <<"9">>, <<"9", "9">>, <<"x">>}
IndexRests == {<<>>, <<"foo">>, <<"foo", "bar", "baz">>}
IndexPaths ==
  {[kind |-> "index", tag |-> "", seg |-> sg, rest |-> rs] : sg \in IndexSegs, rs \in IndexRests}

\* one client at a time, /{index}/.. requests of every shape within one refresh
\* period
NextIndex ==
  \/ \E h \in {1} :
       \/ \E k \in Tenants, r \in IndexPaths : Start(h, k, r)
       \/ GwStep(h) \/ IdxSelect(h) \/ HpStep(h)
       \/ FrFetch(h) \/ FrUpdate(h) \/ FrCheck(h)
  \/ \E t \in TaskIds :
       TaskCheck(t) \/ TaskCount(t) \/ TaskDecide(t) \/ TaskFetch(t) \/ TaskUpdate(t)

SpecIndex == Init /\ [][NextIndex]_vars

\* one index request at a time, forwarded with the relay of the node's answer
\* step by step, within one refresh period
NextRelay ==
  \/ \E h \in {1} :
       \/ \E k \in Tenants, r \in IndexRequests : Start(h, k, r)
       \/ GwStep(h) \/ IdxSelect(h)
       \/ FrFetch(h) \/ FrUpdate(h) \/ FrCheck(h)
       \/ HpBegin(h) \/ HpDo(h) \/ HpHeader(h) \/ HpRead(h) \/ HpWrite(h) \/ HpFlush(h)
       \/ HpDec(h)
  \/ \E t \in TaskIds :
       TaskCheck(t) \/ TaskCount(t) \/ TaskDecide(t) \/ TaskFetch(t) \/ TaskUpdate(t)

SpecRelay == Init /\ [][NextRelay]_vars

\* concurrent /tags/t requests and the refresh goroutines within one refresh
\* period, every Lock, RLock and Unlock a step of its own
NextLocks ==
  \/ \E h \in Handlers :
       \/ HUnlock(h) \/ HLockCall(h) \/ HLockGet(h) \/ HRLock(h)
       \/ HReady(h) /\ \E k \in Tenants, r \in TagRequests : r.tag = "t" /\ Start(h, k, r)
       \/ HReady(h) /\ GwStep(h)
       \/ HReady(h) /\ (FrFetch(h) \/ FrUpdate(h) \/ FrCheck(h))
       \/ HReady(h) /\ LbStep(h)
       \/ HReady(h) /\ HpStep(h)
  \/ \E t \in TaskIds :
       \/ TUnlock(t) \/ TLockCall(t) \/ TLockGet(t) \/ TRLock(t)
       \/ TReady(t) /\ (TaskCheck(t) \/ TaskCount(t) \/ TaskDecide(t) \/ TaskFetch(t)
                          \/ TaskUpdate(t))

SpecLocks == Init /\ [][NextLocks]_vars

\* requests with and without credential, one at a time: the health check,
\* GET and POST of / and /workloads, within one refresh period
NextAuth ==
  \/ \E h \in {1} :
       \/ \E m \in Methods, x \in XKeyValues, a \in AuthValues,
             r \in WorkloadsRequests \cup {RootRequest} : Arrive(h, m, x, a, r)
       \/ GwStep(h)
  \/ \E t \in TaskIds :
       TaskCheck(t) \/ TaskCount(t) \/ TaskDecide(t) \/ TaskFetch(t) \/ TaskUpdate(t)

SpecAuth == Init /\ [][NextAuth]_vars

\* the clock while the server runs; os.Exit follows the return of Cleanup
\* directly (main.go 26-27), so no refresh period passes in between
AdvanceRunning ==
  /\ phase = "running"
  /\ AdvanceBetweenRequests

\* shutdown: GET /workloads requests one at a time, the refresh goroutines with
\* both cases of their select, the signal handler of main
NextStop ==
  \/ AdvanceRunning
  \/ \E h \in {1} :
       \/ \E k \in Tenants, r \in WorkloadsRequests : Start(h, k, r)
       \/ GwStep(h)
  \/ \E t \in TaskIds : TaskRun(t) \/ TaskStop(t)
  \/ Cleanup
  \/ Exit

\* every refresh goroutine that can take a step takes one: the scheduler runs
\* each runnable goroutine, a fetch returns, a select with a ready case proceeds
FairTasks == \A t \in TaskIds : WF_vars(TaskRun(t) \/ TaskStop(t))

SpecStop == Init /\ [][NextStop]_vars /\ FairTasks

(* ------------- arbitrary TrackRequest calls (counter table) ----------- *)
TrackTenants == {"k1", "k2"}

\* one call TrackRequest(apiKey, node, delta), delta +1 or -1, from any caller
AdjustCall(apiKey, node, delta) ==
  /\ delta = 1 => Count(NodeCounts(inFlightRequests, apiKey), node) < MaxCount
  /\ TrackRequest(apiKey, node, delta)
  /\ lastTrack' = [apiKey |-> apiKey, node |-> node, delta |-> delta,
                   before |-> Count(NodeCounts(inFlightRequests, apiKey), node)]
  /\ UNCHANGED <<now, workloadCache, heap, tagMappings, hs, tasks, phase, updInput>>

NextTrack == \E k \in TrackTenants, n \in Nodes, d \in {1, -1} : AdjustCall(k, n, d)

SpecTrack == Init /\ [][NextTrack]_vars

(* ---------------- updateCache on an arbitrary listing ----------------- *)
InitUpdate ==
  /\ now = 0
  /\ workloadCache \in {EmptyMap, [k \in Tenants |-> 1]}
  /\ heap = <<NewCache(0)>>
  /\ tagMappings = EmptyMap
  /\ inFlightRequests = EmptyMap
  /\ hs = [h \in Handlers |-> IdleHandler]
  /\ tasks = [t \in TaskIds |-> FreeTask]
  /\ phase = "running"
  /\ lastTrack = NoTrack
  /\ updInput \in AllWorkloadLists

\* updateCache(apiKey, workloads) with the listing drawn at the start
UpdateCall(apiKey) ==
  /\ updateCache(apiKey, updInput)
  /\ UNCHANGED <<now, workloadCache, inFlightRequests, hs, tasks, phase, lastTrack, updInput>>

NextUpdate == \E k \in Tenants : UpdateCall(k)

SpecUpdate == InitUpdate /\ [][NextUpdate]_vars

(* ================================ claims ============================== *)
Max0(x) == IF x < 0 THEN 0 ELSE x

\* C1: after every TrackRequest call the stored count of the pair it names is
\* max(0, previous count + delta), an absent entry counting as 0, the count of
\* every other pair is what it was, and no stored count is ever negative.
C1_ClampedSum ==
  /\ [](\A k \in DOMAIN inFlightRequests :
          \A n \in DOMAIN inFlightRequests[k] : inFlightRequests[k][n] >= 0)
  /\ [][\A k \in TrackTenants, n \in Nodes :
          LET old == Count(NodeCounts(inFlightRequests, k), n)
              new == Count(NodeCounts(inFlightRequests', k), n)
          IN  IF k = lastTrack'.apiKey /\ n = lastTrack'.node
              THEN new = Max0(old + lastTrack'.delta)
              ELSE new = old]_vars

\* a decrement of a pair at 0 was clamped, after the pair had been counted up
C1_Witness ==
  /\ lastTrack.delta = -1 /\ lastTrack.before = 0
  /\ lastTrack.node \in DOMAIN NodeCounts(inFlightRequests, lastTrack.apiKey)
  /\ inFlightRequests[lastTrack.apiKey][lastTrack.node] = 0
  /\ \E n \in Nodes : Count(NodeCounts(inFlightRequests, lastTrack.apiKey), n) >= 2

\* the registry of tenant k has been through updateCache
Updated(k) == k \in DOMAIN workloadCache /\ heap[workloadCache[k]].LastFetch # ZeroTime

TagsOf(w) == {w.Tags[j] : j \in 1..Len(w.Tags)}

\* the nodes of the workloads of ws that run and carry the tag, in list order
CarrierNodes(ws, tag) ==
  LET Carries(w) == w.Running = TRUE /\ w.Status = "running" /\ tag \in TagsOf(w)
      carriers == SelectSeq(ws, Carries)
  IN  [i \in 1..Len(carriers) |-> carriers[i].Node]

\* one node for every place (workload, position in its tag list) where a running
\* workload names the tag, in list order
OccurrenceNodes(ws, tag) ==
  LET places == [p \in 1..(Len(ws) * MaxTags) |->
                   <<((p - 1) \div MaxTags) + 1, ((p - 1) % MaxTags) + 1>>]
      Names(pl) == LET w == ws[pl[1]]
                   IN  /\ w.Running = TRUE /\ w.Status = "running"
                       /\ pl[2] <= Len(w.Tags) /\ w.Tags[pl[2]] = tag
      hits == SelectSeq(places, Names)
  IN  [i \in 1..Len(hits) |-> ws[hits[i][1]].Node]

RunningTags(ws) ==
  {tag \in TagNames : \E i \in 1..Len(ws) :
     ws[i].Running = TRUE /\ ws[i].Status = "running" /\ tag \in TagsOf(ws[i])}

\* C4 as claimed: after updateCache on a present registry the tag index has a
\* list exactly for the tags of running workloads, and the list of a tag is the
\* nodes of the running workloads that carry it, in upstream order.
C4_TagIndexOneNodePerWorkload ==
  \A k \in Tenants :
    Updated(k) =>
      LET ws == heap[workloadCache[k]].Workloads
      IN  /\ k \in DOMAIN tagMappings
          /\ DOMAIN tagMappings[k] = RunningTags(ws)
          /\ \A tag \in DOMAIN tagMappings[k] : tagMappings[k][tag] = CarrierNodes(ws, tag)

\* C4 amended: the list of a tag holds, in upstream order, the node of each
\* running workload once for every time the workload's tag list names the tag;
\* workloads that are not running, or whose status is not "running", are in no
\* list, and only tags of running workloads have a list.
C4_TagIndex ==
  \A k \in Tenants :
    Updated(k) =>
      LET ws == heap[workloadCache[k]].Workloads
      IN  /\ ws = updInput
          /\ k \in DOMAIN tagMappings
          /\ DOMAIN tagMappings[k] = RunningTags(ws)
          /\ \A tag \in DOMAIN tagMappings[k] : tagMappings[k][tag] = OccurrenceNodes(ws, tag)

\* an updated registry whose listing has a stopped workload with a tag, and a
\* running workload that names one tag twice
C4_Witness ==
  \E k \in Tenants :
    /\ Updated(k)
    /\ LET ws == heap[workloadCache[k]].Workloads
       IN  /\ Len(ws) = 2
           /\ ~ws[1].Running /\ ws[1].Tags = <<"t">>
           /\ IsRunning(ws[2]) /\ ws[2].Tags = <<"t", "t">>
           /\ tagMappings[k]["t"] = <<ws[2].Node, ws[2].Node>>

\* the forwarder calls of tenant k to node n between their increment and return
Outstanding(k, n) ==
  {h \in Handlers : hs[h].pc \in {"hpCall", "hpDec"} /\ hs[h].apiKey = k /\ hs[h].node = n}

\* C2: the counter of a (tenant, node) pair equals the number of
\* HandleProxyRequest calls that have incremented it and not yet returned, so it
\* is 0 when none is outstanding.
C2_CounterIsOutstanding ==
  \A k \in Tenants, n \in Nodes :
    Count(NodeCounts(inFlightRequests, k), n) = Cardinality(Outstanding(k, n))

\* the first position of nodes whose count is minimal
FirstMinimal(nodes, counts) ==
  CHOOSE i \in 1..Len(nodes) :
    /\ \A j \in 1..Len(nodes) : Count(counts, nodes[i]) <= Count(counts, nodes[j])
    /\ \A j \in 1..(i - 1) : Count(counts, nodes[j]) > Count(counts, nodes[i])

\* GetLeastBusyNode returns a node to handler h in this step
Selects(h) == hs[h].pc \in {"lbSel", "lbScan"} /\ hs'[h].pc = "proxy"

\* C3: for a tag other than "all" with a non-empty list in the tag index,
\* GetLeastBusyNode returns the first node of that list, in the order of the
\* last update, whose in-flight count (absent = 0) at the time of the scan is
\* minimal among the nodes of the list.
C3_StableArgMin ==
  [][\A h \in Handlers :
       (Selects(h) /\ hs[h].tag # "all") =>
         LET k == hs[h].apiKey
             nodes == tagMappings[k][hs[h].tag]
             counts == NodeCounts(inFlightRequests, k)
         IN  hs'[h].node = nodes[FirstMinimal(nodes, counts)]]_vars

\* with t -> [B, A] and B counted once, A at 0, the call has returned A; the
\* tie at 0 before went to B, the first of the list
C3_Witness ==
  \E h \in Handlers, k \in Tenants :
    /\ hs[h].pc = "proxy" /\ hs[h].tag = "t" /\ hs[h].apiKey = k /\ hs[h].node = "A"
    /\ k \in DOMAIN tagMappings /\ "t" \in DOMAIN tagMappings[k]
    /\ tagMappings[k]["t"] = <<"B", "A">>
    /\ Count(NodeCounts(inFlightRequests, k), "B") = 1
    /\ Count(NodeCounts(inFlightRequests, k), "A") = 0
    /\ \E g \in Handlers : hs[g].pc = "hpCall" /\ hs[g].tag = "t" /\ hs[g].node = "B"

\* the goroutine in slot t leaves line 244 in this step, having measured more
\* than 180 s since the LastAccess it read and no count above 0
IdleTick(t) ==
  /\ tasks[t].pc = "decide" /\ tasks'[t] # tasks[t]
  /\ now - tasks[t].lastAccess > IdleSeconds
  /\ ~tasks[t].hasActive

\* C5: a tick of a tenant's refresh goroutine that measures an idle time (now
\* minus the last client access it read) above 180 s and finds no counter of the
\* tenant above 0 removes the registry and the tag index of the tenant in one
\* critical section, and the goroutine ends in that step, without a fetch.
C5_IdleEviction ==
  [][\A t \in TaskIds :
       IdleTick(t) =>
         LET k == tasks[t].apiKey
         IN  /\ k \in DOMAIN workloadCache
             /\ k \notin DOMAIN workloadCache'
             /\ k \notin DOMAIN tagMappings'
             /\ tasks'[t] = FreeTask]_vars

\* a tenant whose registry had a tag index, after its eviction: the clock is
\* past the idle limit, no registry, no tag index, no goroutine is left
C5_Witness ==
  /\ Len(heap) >= 1
  /\ now > IdleSeconds
  /\ \E c \in DOMAIN heap : heap[c].LastFetch # ZeroTime /\ HasRunning(heap[c].Workloads)
  /\ \A k \in Tenants :
       k \notin DOMAIN workloadCache /\ k \notin DOMAIN tagMappings /\ LiveTasks(k) = {}

\* C6: whenever the registry of a tenant is deleted, its LastAccess at that
\* moment is more than 180 s old and no counter of the tenant is above 0, also
\* when requests of the tenant arrive during the tick; so a registry idle for
\* 180 s or less, or with a request in flight, is kept.
C6_EvictedOnlyWhenIdle ==
  [][\A k \in Tenants :
       (k \in DOMAIN workloadCache /\ k \notin DOMAIN workloadCache') =>
         /\ now - heap[workloadCache[k]].LastAccess > IdleSeconds
         /\ ~HasActiveRequests(k)]_vars

\* handler h calls startCacheRefresh in this step
StartCall(h) ==
  /\ hs[h].pc \in {"gwStart1", "gwStart2", "frStart"}
  /\ hs'[h] # hs[h]

\* C7: at any time at most one refresh goroutine of a tenant is live, and a
\* startCacheRefresh call made while one is live starts none.
C7_OneTaskPerTenant ==
  /\ [](\A k \in Tenants : Cardinality(LiveTasks(k)) <= 1)
  /\ [][\A h \in Handlers :
          (StartCall(h) /\ LiveTasks(hs[h].apiKey) # {}) => tasks' = tasks]_vars

\* two requests found no registry and both have called startCacheRefresh; one
\* registry was made, and one goroutine runs
C7_Witness ==
  \E k \in Tenants :
    /\ \A h \in Handlers : hs[h].apiKey = k /\ hs[h].pc \in {"gwFetch1", "gwUpd1"}
    /\ Len(heap) = 1
    /\ k \in DOMAIN workloadCache
    /\ Cardinality(LiveTasks(k)) = 1

\* getWorkloads returns to handler h in this step
Returns(h) == hs[h].pc # "gwRet" /\ hs'[h].pc = "gwRet"

\* the paths of a call whose fetch failed: no registry was found at line 293;
\* a registry was found and its list was empty at line 311; a registry was
\* found with a list
FoundNone(h) == hs[h].pc = "gwFetch1" /\ ~hs[h].exists
FoundEmpty(h) == hs[h].pc = "gwFetch2" /\ hs[h].exists
FoundList(h) == hs[h].pc = "gwFallback" /\ hs[h].exists

FreshSeen(h) ==
  /\ hs[h].exists
  /\ HasRunning(heap[hs[h].cache].Workloads)
  /\ now - heap[hs[h].cache].LastFetch <= FreshSeconds

\* the call of handler h takes a path with a fetch, or the one without, in this step
TakesFetchPath(h) ==
  /\ hs[h].pc \in {"gw1", "gwLen", "gwScan"}
  /\ hs'[h].pc \in {"gwStart1", "gwFetch2", "gwFetch3"}
TakesCachedPath(h) == hs[h].pc = "gwScan" /\ hs'[h].pc = "gwCached"

\* C9: getWorkloads returns the cached list without a fetch iff it found a
\* registry whose list was fetched at most 60 s ago and has a node with
\* running=true and status "running"; in every other case it fetches and, when
\* the fetch succeeds, stores the fetched list in the registry of the tenant
\* and returns it.
C9_FreshnessWindow ==
  [][\A h \in Handlers :
       /\ TakesCachedPath(h) => FreshSeen(h)
       /\ TakesFetchPath(h) => ~FreshSeen(h)
       /\ (Returns(h) /\ hs'[h].fetch = "none") =>
            /\ hs[h].pc = "gwCached"
            /\ ~hs'[h].err /\ hs'[h].wl = heap[hs[h].cache].Workloads
       /\ (Returns(h) /\ hs'[h].fetch = "ok") =>
            ~hs'[h].err /\ hs'[h].wl = hs[h].wl
       /\ (hs[h].pc \in {"gwUpd1", "gwUpd2", "gwUpd3"} /\ hs'[h] # hs[h]) =>
            /\ hs[h].apiKey \in DOMAIN workloadCache'
            /\ heap'[workloadCache'[hs[h].apiKey]].Workloads = hs[h].wl]_vars

\* C10: when getWorkloads returns without an error, the tenant has a registry
\* and a live refresh goroutine, also when the goroutine evicts the registry
\* during the call.
C10_ReturnsWithTask ==
  [][\A h \in Handlers :
       (Returns(h) /\ ~hs'[h].err) =>
         /\ hs[h].apiKey \in DOMAIN workloadCache'
         /\ \E t \in TaskIds : tasks'[t].pc # "free" /\ tasks'[t].apiKey = hs[h].apiKey]_vars

\* the candidates that a listing gives for a tag
ListedCandidates(ws, tag) ==
  IF tag = "all" THEN RunningNodes(ws) ELSE OccurrenceNodes(ws, tag)

\* nothing but the forced refresh of handler h has written the registry of its
\* tenant since: the registry is there, and holds the list of that refresh or
\* was never filled
OnlyRefreshWrote(h) ==
  LET k == hs[h].apiKey
  IN  /\ k \in DOMAIN workloadCache
      /\ \/ heap[workloadCache[k]].Workloads = hs[h].wl
         \/ heap[workloadCache[k]].LastFetch = ZeroTime

\* C11: when the forced refresh of a GetLeastBusyNode call has succeeded, the
\* candidates enumerated are those of the fetched workloads, so with a running
\* node that carries the tag (any running node for "all") in the fetched list
\* the call returns a node; stated for the calls during which no other
\* goroutine has replaced or removed the registry.
C11_SelfHealing ==
  [][\A h \in Handlers :
       (/\ hs[h].pc = "lbSel" /\ hs'[h] # hs[h]
        /\ Len(ListedCandidates(hs[h].wl, hs[h].tag)) > 0
        /\ OnlyRefreshWrote(h)) =>
         /\ Candidates(hs[h].apiKey, hs[h].tag) = ListedCandidates(hs[h].wl, hs[h].tag)
         /\ hs'[h].pc \in {"proxy", "lbMk"}]_vars

\* s is an optional sign and at least one digit
IsNumeral(s) ==
  LET ds == IF Len(s) > 0 /\ s[1] \in {"+", "-"} THEN Tail(s) ELSE s
  IN  Len(ds) > 0 /\ \A i \in 1..Len(ds) : IsDigit(ds[i])

\* the integer that a numeral denotes
RECURSIVE DigitsValue(_)
DigitsValue(ds) ==
  IF ds = <<>> THEN 0 ELSE 10 * DigitsValue(SubSeq(ds, 1, Len(ds) - 1)) + DigitVal(ds[Len(ds)])
SegValue(s) ==
  IF s[1] = "-" THEN 0 - DigitsValue(Tail(s))
  ELSE IF s[1] = "+" THEN DigitsValue(Tail(s)) ELSE DigitsValue(s)

\* the answer to an index request for index i with the running workloads of
\* the forced refresh: forwarded to R[i] with the rest of the path, or a 404
\* that leaves the counters alone
IndexAnswer(h, i) ==
  LET R == RunningNodes(hs[h].wl)
  IN  IF 0 <= i /\ i < Len(R)
      THEN /\ hs'[h].pc = "proxy"
           /\ hs'[h].node = R[i + 1]
           /\ hs'[h].rest = hs[h].rest
      ELSE /\ hs'[h].pc = "done" /\ hs'[h].status = 404
           /\ inFlightRequests' = inFlightRequests

\* handler h serves an index request with integer segment and takes this step
IndexStep(h, pc) ==
  /\ hs[h].kind = "index" /\ IsNumeral(hs[h].seg)
  /\ hs[h].pc = pc /\ hs'[h] # hs[h]

NodeCount(h) == Count(NodeCounts(inFlightRequests, hs[h].apiKey), hs[h].node)

\* C13: when HandleProxyRequest cannot build the outbound request, or the call
\* to the node fails in transport, the caller gets 502, and the counter of the
\* (tenant, node) pair is after the call what it was before: untouched when
\* nothing was built, counted up once and down once around a failed call.
C13_GatewayErrors ==
  [][\A h \in Handlers :
       /\ (hs[h].pc = "proxy" /\ hs'[h].pc = "done") =>
            /\ hs'[h].status = 502
            /\ inFlightRequests' = inFlightRequests
       /\ (hs[h].pc = "proxy" /\ hs'[h].pc = "hpCall") =>
            NodeCount(h)' = NodeCount(h) + 1
       /\ (hs[h].pc = "hpDec" /\ hs[h].status = 502 /\ hs'[h].pc = "done") =>
            /\ hs'[h].status = 502
            /\ Count(NodeCounts(inFlightRequests', hs[h].apiKey), hs[h].node) = NodeCount(h) - 1]_vars

\* the fetch of the forced refresh of handler h fails in this step
RefreshFails(h) == hs[h].pc = "frFetch" /\ hs'[h].pc = "done"

\* C14: a failed listing fetch makes a 500 only if the tenant has no cached
\* snapshot at that time: with a snapshot the request goes on with it, without
\* one the answer is 500 and no other status.
C14_Only500WithoutSnapshot ==
  [][\A h \in Handlers :
       /\ (Returns(h) /\ hs'[h].fetch = "failed") =>
            (hs'[h].err <=> ~Updated(hs[h].apiKey))
       /\ (hs[h].pc = "gwRet" /\ hs[h].err /\ hs'[h] # hs[h]) =>
            hs'[h].pc = "done" /\ hs'[h].status = 500
       /\ (hs[h].pc = "frFetch" /\ hs'[h] # hs[h] /\ Updated(hs[h].apiKey)) =>
            hs'[h].pc # "done"
       /\ (RefreshFails(h) /\ ~Updated(hs[h].apiKey)) =>
            hs'[h].status = 500]_vars

\* C15: when GetLeastBusyNode takes the locks of lines 29-33 and the tag has no
\* entry or an empty node list in the tenant's tag index (for tag "all": the
\* registry has no running workload), the request is answered 404 by that very
\* step: it never reaches HandleProxyRequest and no counter table changes.
C15_NotFoundOnEmpty ==
  [][\A h \in Handlers :
       (/\ hs[h].pc = "lbSel" /\ hs'[h] # hs[h]
        /\ Len(Candidates(hs[h].apiKey, hs[h].tag)) = 0) =>
         /\ hs'[h].pc = "done" /\ hs'[h].status = 404
         /\ inFlightRequests' = inFlightRequests]_vars

\* a tag request answered 404 while the tenant's registry has running
\* workloads, none of them under the tag
C15_Witness ==
  \E h \in Handlers :
    /\ hs[h].pc = "done" /\ hs[h].status = 404 /\ hs[h].kind = "tag" /\ hs[h].tag # "all"
    /\ hs[h].apiKey \in DOMAIN workloadCache
    /\ HasRunning(heap[workloadCache[hs[h].apiKey]].Workloads)
    /\ hs[h].apiKey \in DOMAIN tagMappings
    /\ hs[h].tag \notin DOMAIN tagMappings[hs[h].apiKey]

\* the workloads of a list that are running, in list order, as their nodes
RunningInOrder(ws) ==
  LET kept == SelectSeq(ws, LAMBDA w : w.Running /\ w.Status = "running")
  IN  [i \in 1..Len(kept) |-> kept[i].Node]

\* what GetLeastBusyNode has to choose from for handler h
Expected(h) ==
  LET k == hs[h].apiKey
  IN  IF hs[h].tag = "all"
      THEN IF k \in DOMAIN workloadCache
           THEN RunningInOrder(heap[workloadCache[k]].Workloads) ELSE <<>>
      ELSE IF k \in DOMAIN tagMappings /\ hs[h].tag \in DOMAIN tagMappings[k]
           THEN tagMappings[k][hs[h].tag] ELSE <<>>

\* C16: for tag "all" the candidates of GetLeastBusyNode are the nodes of the
\* workloads of the tenant's registry with running = true and status "running",
\* in upstream order, workloads without a tag included; for any other tag they
\* are the node list stored for the tag in the tag index. With candidates the
\* call goes on to the scan, and it returns the first candidate whose in-flight
\* count is minimal.
C16_TagAll ==
  [][\A h \in Handlers :
       /\ (hs[h].pc = "lbSel" /\ hs'[h] # hs[h] /\ Len(Expected(h)) > 0) =>
            /\ hs'[h].pc \in {"proxy", "lbMk"}
            /\ hs'[h].pc = "lbMk" => hs'[h].nodes = Expected(h)
       /\ Selects(h) =>
            hs'[h].node = Expected(h)[FirstMinimal(Expected(h),
                                                   NodeCounts(inFlightRequests, hs[h].apiKey))]]_vars

\* a request for tag "all" has been given node B, the running workload of the
\* registry that carries no tag and stands in no list of the tag index
C16_Witness ==
  \E h \in Handlers :
    /\ hs[h].pc = "proxy" /\ hs[h].tag = "all" /\ hs[h].node = "B"
    /\ hs[h].apiKey \in DOMAIN workloadCache
    /\ heap[workloadCache[hs[h].apiKey]].Workloads = ListMixed
    /\ hs[h].apiKey \in DOMAIN tagMappings
    /\ DOMAIN tagMappings[hs[h].apiKey] = {}

\* the goroutine in slot t is live
Live(t) == tasks[t].pc # "free"

\* the goroutine in slot t is live with its stop signal closed
Signalled(t) == Live(t) /\ heap[tasks[t].newCache].StopRefresh = "closed"

IsBearerKey(auth) ==
  \E n \in 1..Len(auth) :
    /\ Len(auth) = 7 + n
    /\ \A i \in 1..7 : auth[i] = Bearer[i]

\* the request that handler h takes up in this step carries no credential
ArrivesBare(h) ==
  /\ hs[h].pc = "idle" /\ hs'[h].pc # "idle"
  /\ hs'[h].req.xkey = <<>>
  /\ ~IsBearerKey(hs'[h].req.auth)

\* the step leaves the registries, the tag index, the counters and the
\* goroutines as they are
ServerUntouched ==
  UNCHANGED <<workloadCache, heap, tagMappings, inFlightRequests, tasks>>

WrittenData(out) ==
  LET kept == SelectSeq(out, LAMBDA e : e.ev = "data")
  IN  [i \in 1..Len(kept) |-> kept[i].data]
UpstreamData(src) ==
  LET kept == SelectSeq(src, LAMBDA r : r.data # "")
  IN  [i \in 1..Len(kept) |-> kept[i].data]
IsPrefix(a, b) == Len(a) <= Len(b) /\ \A i \in 1..Len(a) : a[i] = b[i]

\* handler h is in the relay of lines 56-91
InRelay(h) == hs[h].pc \in {"hpHdr", "hpRead", "hpWrite", "hpFlush"}

\* C19: once the node has answered, HandleProxyRequest writes the status of that
\* answer and its headers first, whatever the status and without a second
\* request; then the chunks in the order read, one event at a time, each
\* flushed before the next read when the caller's writer is a Flusher; a read
\* that returned EOF or an error is the last one, a failed write ends the copy,
\* and from then on nothing is written and the status stays as sent.
C19_RelayOrdering ==
  [][\A h \in Handlers :
       /\ (hs[h].pc = "hpHdr" /\ hs'[h] # hs[h]) =>
            /\ hs'[h].relay.out = <<HeadEvent>>
            /\ hs'[h].status = hs[h].relay.answer
            /\ hs[h].relay.sent = 1
       /\ (InRelay(h) /\ hs'[h] # hs[h]) =>
            /\ hs'[h].relay.out # <<>> /\ hs'[h].relay.out[1] = HeadEvent
            /\ \/ hs'[h].relay.out = hs[h].relay.out
               \/ \E e \in {HeadEvent, FlushEvent} \cup {DataEvent(d) : d \in {"a", "b"}} :
                    hs'[h].relay.out = Append(hs[h].relay.out, e)
            /\ IsPrefix(WrittenData(hs'[h].relay.out), UpstreamData(hs[h].relay.src))
       /\ (hs[h].pc = "hpRead" /\ hs'[h] # hs[h]) =>
            /\ hs[h].relay.cur.err = "nil"
            /\ hs[h].relay.flusher =>
                 hs[h].relay.out[Len(hs[h].relay.out)] \in {HeadEvent, FlushEvent}
       /\ (hs[h].pc = "hpWrite" /\ hs'[h] # hs[h] /\ hs'[h].relay.out = hs[h].relay.out) =>
            hs'[h].pc = "hpDec"
       /\ (InRelay(h) /\ hs[h].pc # "hpHdr" /\ hs'[h] # hs[h]) => hs'[h].status = hs[h].status
       /\ (hs[h].pc = "hpDec" /\ hs'[h] # hs[h]) =>
            hs'[h].pc = "done" /\ hs'[h].status = hs[h].status]_vars

\* the relay of an answer that passes through: the status written is the
\* node's (the formula of the ordering with HpDo giving no redirect)
C19_Passed ==
  \E h \in Handlers :
    /\ hs[h].pc = "hpDec" /\ hs[h].relay.answer = 404 /\ hs[h].status = 404
    /\ hs[h].relay.flusher
    /\ hs[h].relay.out = <<HeadEvent, DataEvent("a"), FlushEvent, DataEvent("b"), FlushEvent>>
    /\ hs[h].relay.cur = ReadResult("b", "fail")

\* the tag index that the running workloads of a list give
DerivedIndex(ws) == [tag \in RunningTags(ws) |-> OccurrenceNodes(ws, tag)]

\* C20: in every state (the exclusive sections of the registry lock are single
\* steps, so the lock is never held exclusively in a state), a tenant has a tag
\* index only if it has a registry; the tag index of a tenant with a registry
\* is the one derived from the stored workload list by the running-node
\* predicate, and a registry without tag index has never been filled. This
\* holds in particular while a reader holds the shared lock.
C20_IndexMatchesList ==
  \A k \in Tenants :
    /\ k \in DOMAIN tagMappings => k \in DOMAIN workloadCache
    /\ k \in DOMAIN workloadCache =>
         LET c == heap[workloadCache[k]]
         IN  IF k \in DOMAIN tagMappings
             THEN /\ DOMAIN tagMappings[k] = DOMAIN DerivedIndex(c.Workloads)
                  /\ \A tag \in DOMAIN tagMappings[k] :
                       tagMappings[k][tag] = DerivedIndex(c.Workloads)[tag]
             ELSE c.Workloads = <<>> /\ c.LastFetch = ZeroTime

\* a reader holds the shared lock over a registry that a later update has
\* refilled with [B, A], the tag index being t -> [B, A]
C20_Witness ==
  \E k \in Tenants :
    /\ CacheRHeld
    /\ k \in DOMAIN workloadCache /\ k \in DOMAIN tagMappings
    /\ heap[workloadCache[k]].Workloads = ListTwo
    /\ heap[workloadCache[k]].LastFetch >= TimeStep
    /\ tagMappings[k] = [tag \in {"t"} |-> <<"B", "A">>]

\* the goroutine with record r is at a Lock or RLock call on cacheLock
AtCacheLockCall(r, want) == NextRelease(r) = "" /\ Missing(r, want) = "c"

\* C21: no goroutine is ever at a Lock or RLock call on the registry lock
\* (cacheLock) while it holds the counter lock (requestLock), shared or
\* exclusive: neither a request goroutine nor a refresh goroutine.
C21_LockOrder ==
  /\ \A h \in Handlers : AtCacheLockCall(hs[h], WantH(hs[h])) => hs[h].lk.r = ""
  /\ \A t \in TaskIds : AtCacheLockCall(tasks[t], WantT(tasks[t])) => tasks[t].lk.r = ""

\* the goroutine with record r, identity self, is inside a Lock or RLock call
\* that cannot return in this state
Blocked(r, want, self) ==
  /\ NextRelease(r) = "" /\ Missing(r, want) # ""
  /\ \/ want[Missing(r, want)] = "R" /\ ~CanRLock(Missing(r, want), self)
     \/ /\ want[Missing(r, want)] = "W" /\ r.lk[Missing(r, want)] = "pend"
        /\ ~CanLock(Missing(r, want), self)
BlockedH(h) == Blocked(hs[h], WantH(hs[h]), <<"h", h>>)
BlockedT(t) == Blocked(tasks[t], WantT(tasks[t]), <<"t", t>>)

\* the goroutine holds a lock or is a waiting writer of one
HoldsAny(r) == r.lk.c # "" \/ r.lk.r # ""

\* some goroutine waits, and every goroutine that holds a lock or waits as a
\* writer is itself waiting: nobody can ever release, so they wait forever
Deadlocked ==
  /\ (\E h \in Handlers : BlockedH(h)) \/ (\E t \in TaskIds : BlockedT(t))
  /\ \A h \in Handlers : HoldsAny(hs[h]) => BlockedH(h)
  /\ \A t \in TaskIds : HoldsAny(tasks[t]) => BlockedT(t)

\* C22: with both locks as writer-preferring readers-writer locks, no
\* interleaving reaches a state in which goroutines wait on each other's
\* locks forever.
C22_NoDeadlock == ~Deadlocked

\* goroutine t returns in this step
TaskEnds(t) == tasks[t].pc # "free" /\ tasks'[t].pc = "free"

\* the return of lines 249-255 after deleting the registry the goroutine read
EndsByOwnEviction(t) ==
  /\ tasks[t].pc = "decide" /\ MustEvict(tasks[t])
  /\ tasks[t].apiKey \in DOMAIN workloadCache
  /\ workloadCache[tasks[t].apiKey] = tasks[t].cache
  /\ tasks[t].cache = tasks[t].newCache
  /\ tasks[t].apiKey \notin DOMAIN workloadCache'

\* the return of lines 283-285 on the channel that Cleanup closed
EndsByStopSignal(t) ==
  /\ tasks[t].pc = "wait" /\ phase # "running"
  /\ heap[tasks[t].newCache].StopRefresh = "closed"

\* before Cleanup every tenant has a registry iff it has exactly one live
\* refresh goroutine, which runs for that registry object
RegistryTaskOneToOne ==
  phase = "running" =>
    \A k \in Tenants :
      IF k \in DOMAIN workloadCache
      THEN /\ Cardinality(LiveTasks(k)) = 1
           /\ \A t \in LiveTasks(k) : tasks[t].newCache = workloadCache[k]
      ELSE LiveTasks(k) = {}

\* C23: until shutdown a tenant's registry is present iff a live background
\* task of the tenant exists, and a task ends only by the eviction that removes
\* its own registry or on the stop signal: the deleted-while-running return and
\* a failed ownership test at eviction are never taken.
C23_OneToOne ==
  /\ []RegistryTaskOneToOne
  /\ [][\A t \in TaskIds : TaskEnds(t) => EndsByOwnEviction(t) \/ EndsByStopSignal(t)]_vars

\* a refresh goroutine was started with a registry and has ended by evicting
\* it, before any shutdown
C23_Witness ==
  /\ phase = "running"
  /\ Len(heap) >= 1
  /\ \A k \in Tenants : k \notin DOMAIN workloadCache /\ LiveTasks(k) = {}

\* this step is a step of goroutine t
TaskSteps(t) == tasks'[t] # tasks[t]

\* the step is the failing fetch of a tick: the goroutine goes on to its
\* select, and registry table, registry objects and tag index are untouched
FailedFetchSkipped(t) ==
  tasks[t].pc = "fetch" /\ TaskSteps(t) /\ tasks'[t].pc # "update" =>
    /\ tasks'[t].pc = "wait" /\ tasks'[t].err
    /\ tasks'[t].apiKey = tasks[t].apiKey /\ tasks'[t].newCache = tasks[t].newCache
    /\ tasks'[t].nextTick = tasks[t].nextTick
    /\ heap' = heap /\ tagMappings' = tagMappings /\ workloadCache' = workloadCache

\* after a failed fetch the goroutine takes the next tick and runs the checks
\* of lines 216-241 without writing anything
FailedThenTick(t) ==
  tasks[t].err /\ TaskSteps(t) /\ tasks[t].pc \in {"wait", "check", "count"} =>
    /\ tasks[t].pc = "wait" => tasks'[t].pc = "check" /\ now >= tasks[t].nextTick
    /\ tasks[t].pc = "check" => tasks'[t].pc = "count"
    /\ tasks[t].pc = "count" => tasks'[t].pc = "decide"
    /\ tasks'[t].err
    /\ heap' = heap /\ tagMappings' = tagMappings /\ workloadCache' = workloadCache

\* a fetched empty list replaces the stored list, and the goroutine goes on
EmptyListStored(t) ==
  tasks[t].pc = "update" /\ TaskSteps(t) /\ tasks[t].wl = <<>> =>
    /\ tasks'[t].pc = "wait" /\ ~tasks'[t].err
    /\ tasks[t].apiKey \in DOMAIN workloadCache
    /\ workloadCache' = workloadCache
    /\ heap'[workloadCache[tasks[t].apiKey]].Workloads = <<>>
    /\ heap'[workloadCache[tasks[t].apiKey]].LastFetch = now

\* the iteration after a failed fetch reaches the fetch of line 265
FetchesAgain(t) ==
  tasks[t].err /\ TaskSteps(t) /\ tasks[t].pc = "decide" => tasks'[t].pc = "fetch"

\* the iteration after a failed fetch reaches the fetch of line 265 unless it
\* is the one that evicts the registry
FetchesAgainUnlessEvicted(t) ==
  tasks[t].err /\ TaskSteps(t) /\ tasks[t].pc = "decide" =>
    IF MustEvict(tasks[t])
    THEN tasks'[t].pc = "free" /\ tasks[t].apiKey \notin DOMAIN workloadCache'
    ELSE tasks'[t].pc = "fetch" /\ workloadCache' = workloadCache /\ heap' = heap

\* C24 as stated: a failed background fetch does not end the task and leaves
\* the stored list, tag index and last-fetch time as they were; the task
\* fetches again on the next tick; a fetched empty list replaces the stored
\* list and does not stop the task.
C24_FetchFailureSkippedAlways ==
  [][\A t \in TaskIds :
       /\ FailedFetchSkipped(t) /\ FailedThenTick(t) /\ EmptyListStored(t)
       /\ FetchesAgain(t)]_vars

\* C24: a failed background fetch does not end the task and leaves the stored
\* list, tag index and last-fetch time as they were; the task runs its next
\* iteration on the next tick and fetches again unless that iteration evicts
\* the idle registry; a fetched empty list replaces the stored list and does
\* not stop the task.
C24_FetchFailureSkipped ==
  [][\A t \in TaskIds :
       /\ FailedFetchSkipped(t) /\ FailedThenTick(t) /\ EmptyListStored(t)
       /\ FetchesAgainUnlessEvicted(t)]_vars

\* a refresh goroutine waits for its next tick after a failed fetch, and the
\* registry still holds the two workloads of an earlier fetch with their tags
C24_Witness ==
  \E t \in TaskIds :
    /\ tasks[t].pc = "wait" /\ tasks[t].err
    /\ tasks[t].apiKey \in DOMAIN workloadCache
    /\ heap[workloadCache[tasks[t].apiKey]].Workloads = ListTwo
    /\ tasks[t].apiKey \in DOMAIN tagMappings

\* the positions whose step reads a registry's Workloads, LastFetch or
\* LastAccess, and those whose step writes one of them
HandlerReads == {"gwLen", "gwScan", "gwFallback", "gwCached", "lb0", "frChk", "lbSel"}
HandlerWrites == {"idle", "gw1", "gwStart1", "gwUpd1", "gwUpd2", "gwStart2", "gwUpd3",
                  "frUpd", "frStart"}
TaskReads == {"check"}
TaskWrites == {"update"}

\* some other goroutine is inside a critical section of cacheLock.Lock()
WriterInside(self) == OthersHave("c", {"W"}, self)

\* C25: every read of a registry's workload list, last-fetch time or
\* last-access time runs with cacheLock held (shared or exclusive), every
\* write with cacheLock held exclusively, and no read is about to run while
\* another goroutine is inside updateCache's critical section.
C25_ReadsLocked ==
  /\ \A h \in Handlers :
        /\ hs[h].pc \in HandlerReads /\ HReady(h) =>
              hs[h].lk.c \in {"R", "W"} /\ ~WriterInside(<<"h", h>>)
        /\ hs[h].pc \in HandlerWrites /\ HReady(h) => hs[h].lk.c = "W"
  /\ \A t \in TaskIds :
        /\ tasks[t].pc \in TaskReads /\ TReady(t) =>
              tasks[t].lk.c \in {"R", "W"} /\ ~WriterInside(<<"t", t>>)
        /\ tasks[t].pc \in TaskWrites /\ TReady(t) => tasks[t].lk.c = "W"

\* the length test of getWorkloads is about to read the workload list while
\* the refresh goroutine is inside updateCache
C25_Race ==
  \E h \in Handlers, t \in TaskIds :
    /\ hs[h].pc = "gwLen" /\ HReady(h)
    /\ tasks[t].pc = "update" /\ TReady(t) /\ tasks[t].lk.c = "W"

\* the positions of a request goroutine inside GetLeastBusyNode
InGetLeastBusyNode == {"lb0", "frFetch", "frUpd", "frChk", "frStart", "lbSel", "lbMk", "lbScan"}

\* the step leaves the value of every counter as it was
CountsKept ==
  \A k \in Tenants, n \in Nodes :
    Count(NodeCounts(inFlightRequests', k), n) = Count(NodeCounts(inFlightRequests, k), n)

\* C26: a step of GetLeastBusyNode leaves the value of every in-flight
\* counter unchanged (a counter table it creates reads as 0 everywhere); a
\* counter changes only in a TrackRequest step of HandleProxyRequest, for
\* the tenant and node of that request.
C26_SelectionDoesNotReserve ==
  [][/\ \A h \in Handlers :
          hs[h].pc \in InGetLeastBusyNode /\ hs'[h] # hs[h] => CountsKept
     /\ \A k \in Tenants, n \in Nodes :
          Count(NodeCounts(inFlightRequests', k), n) # Count(NodeCounts(inFlightRequests, k), n)
            => \E h \in Handlers :
                 /\ hs[h].pc \in {"proxy", "hpDec"} /\ hs'[h] # hs[h]
                 /\ hs[h].apiKey = k /\ hs[h].node = n]_vars

====
